---------------------------- MODULE Spec2Model ----------------------------
(***************************************************************************)
(* Model of the satellite reputation store (type reputations) of          *)
(* storj: reputations.Update and the administrative entry points, the     *)
(* audit-history aggregation (recordAuditHistory) and the suspension /    *)
(* disqualification rules (populateUpdateNodeStats).                       *)
(*                                                                         *)
(* Source: src/satellite/payments/billing/chore_test.go, lines 222..995   *)
(* (package satellitedb).                                                  *)
(*                                                                         *)
(* The garbage-collection walk of the storage node,                       *)
(* FileWalker.WalkSatellitePiecesToTrash, is modelled from                 *)
(* src/unnamed/part_000 (package pieces).                                  *)
(*                                                                         *)
(* Times are integers (one unit = one tick of the clock); a nil           *)
(* *time.Time is Nil.  float64 values are exact rationals <<n, d>>.        *)
(***************************************************************************)
EXTENDS Integers, Sequences, FiniteSets, TLC

VARIABLES
    reputations,      \* table reputations: node id -> row
    audit_histories,  \* table audit_histories: node id -> row
    cfg,              \* the configuration every request carries
    last,             \* the last finished call: its arguments and results
    txs,              \* the open transactions of the concurrent callers
    calls,            \* the concurrent Update calls: how many began, and per node how
                      \* many had an audit to record and how many recorded it
    walk              \* a call of FileWalker.WalkSatellitePiecesToTrash: its
                      \* arguments, its position in the blob store and its results

vars == <<reputations, audit_histories, cfg, last, txs, calls, walk>>

-----------------------------------------------------------------------------
(* Bounds of the model *)

\* the largest observation time (observation times range over 0..MaxTime)
MaxTime == 3

\* no call is started on a node whose totalAuditCount reached MaxAudits
MaxAudits == 4

\* with the administrative calls in play, no audit is started on a node
\* whose count reached MaxMixedAudits
MaxMixedAudits == 2

\* the number of Update calls the concurrent callers start
MaxCalls == 2

Nodes == {"n1", "n2"}

\* the node the sequential callers address
SeqNodes == {"n1"}

Callers == {"c1", "c2"}

Times == 0 .. MaxTime

\* the observation times of the concurrent callers
TxTimes == {1, 2}

\* the times the administrative calls are made at
AdminTimes == {1}

\* a nil *time.Time
Nil == 0 - 1

-----------------------------------------------------------------------------
(* float64 values as exact rationals <<numerator, denominator>> *)

RECURSIVE GCD(_, _)
GCD(a, b) == IF b = 0 THEN a ELSE GCD(b, a % b)

Rat(n, d) == LET g == GCD(IF n < 0 THEN 0 - n ELSE n, d)
             IN  IF g = 0 THEN <<0, 1>> ELSE <<n \div g, d \div g>>

RAdd(x, y) == Rat(x[1] * y[2] + y[1] * x[2], x[2] * y[2])

RMul(x, y) == Rat(x[1] * y[1], x[2] * y[2])

\* x / y for y > 0
RDiv(x, y) == Rat(x[1] * y[2], x[2] * y[1])

RLeq(x, y) == x[1] * y[2] <= y[1] * x[2]

RLt(x, y) == x[1] * y[2] < y[1] * x[2]

RInt(n) == <<n, 1>>

-----------------------------------------------------------------------------
(* reputation.UpdateRequest: the configuration part of a request.          *)
(* AuditHistory is reputation.AuditHistoryConfig.                          *)

ConfigStrict ==
    [ AuditLambda              |-> <<1, 1>>,
      AuditWeight              |-> <<1, 1>>,
      AuditDQ                  |-> <<1, 4>>,
      AuditsRequiredForVetting |-> 2,
      SuspensionGracePeriod    |-> 1,
      SuspensionDQEnabled      |-> TRUE,
      AuditHistory |->
        [ WindowSize               |-> 1,
          TrackingPeriod           |-> 1,
          GracePeriod              |-> 0,
          OfflineThreshold         |-> <<1, 2>>,
          OfflineDQEnabled         |-> TRUE,
          OfflineSuspensionEnabled |-> TRUE ] ]

ConfigLax ==
    [ AuditLambda              |-> <<1, 2>>,
      AuditWeight              |-> <<1, 1>>,
      AuditDQ                  |-> <<1, 5>>,
      AuditsRequiredForVetting |-> 3,
      SuspensionGracePeriod    |-> 0,
      SuspensionDQEnabled      |-> FALSE,
      AuditHistory |->
        [ WindowSize               |-> 2,
          TrackingPeriod           |-> 2,
          GracePeriod              |-> 1,
          OfflineThreshold         |-> <<3, 5>>,
          OfflineDQEnabled         |-> FALSE,
          OfflineSuspensionEnabled |-> TRUE ] ]

ConfigNoOffline ==
    [ ConfigLax EXCEPT !.AuditHistory.OfflineSuspensionEnabled = FALSE,
                       !.SuspensionDQEnabled = TRUE ]

\* a tracking period of two windows
ConfigWide ==
    [ ConfigStrict EXCEPT !.AuditHistory.TrackingPeriod = 2 ]

\* a tracking period shorter than one window
ConfigNarrow ==
    [ ConfigLax EXCEPT !.AuditHistory.TrackingPeriod = 1 ]

Configs == {ConfigStrict, ConfigLax, ConfigNoOffline}

\* the configurations the audit history is updated under on its own
HistoryConfigs == {ConfigStrict, ConfigLax, ConfigWide, ConfigNarrow}

\* reputation.AuditSuccess, AuditFailure, AuditUnknown, AuditOffline
AuditOutcomes == {"Success", "Failure", "Unknown", "Offline"}

-----------------------------------------------------------------------------
(* Rows of the two tables *)

\* internalpb.AuditHistory{}: the empty history Update and the
\* administrative calls marshal into a new reputations row
EmptyAuditHistory == [Windows |-> <<>>, Score |-> <<0, 1>>]

\* a reputations row as INSERT INTO reputations (id, audit_history) leaves it:
\* every other column takes its default
NewReputation ==
    [ present                     |-> TRUE,
      AuditSuccessCount           |-> 0,
      TotalAuditCount             |-> 0,
      VettedAt                    |-> Nil,
      Contained                   |-> FALSE,
      Disqualified                |-> Nil,
      UnknownAuditSuspended       |-> Nil,
      OfflineSuspended            |-> Nil,
      UnderReview                 |-> Nil,
      OnlineScore                 |-> <<1, 1>>,
      AuditHistory                |-> EmptyAuditHistory,
      AuditReputationAlpha        |-> <<1, 1>>,
      AuditReputationBeta         |-> <<1, 1>>,
      UnknownAuditReputationAlpha |-> <<1, 1>>,
      UnknownAuditReputationBeta  |-> <<1, 1>>,
      LastContactSuccess          |-> Nil,
      LastContactFailure          |-> Nil ]

\* sql.ErrNoRows: the node has no row in reputations
NoReputation == [NewReputation EXCEPT !.present = FALSE]

\* sql.ErrNoRows: the node has no row in audit_histories
NoAuditHistory == [present |-> FALSE, History |-> EmptyAuditHistory]

\* overlay.ReputationStatus
ReputationStatus(dbNode) ==
    [ Contained             |-> dbNode.Contained,
      Disqualified          |-> dbNode.Disqualified,
      UnknownAuditSuspended |-> dbNode.UnknownAuditSuspended,
      OfflineSuspended      |-> dbNode.OfflineSuspended,
      VettedAt              |-> dbNode.VettedAt ]

\* the zero value of overlay.ReputationStatus (var oldStatus)
ZeroStatus ==
    [ Contained             |-> FALSE,
      Disqualified          |-> Nil,
      UnknownAuditSuspended |-> Nil,
      OfflineSuspended      |-> Nil,
      VettedAt              |-> Nil ]

\* overlay.ReputationStatus.Equal: the five status fields agree
StatusEqual(a, b) ==
    /\ a.Contained = b.Contained
    /\ a.Disqualified = b.Disqualified
    /\ a.UnknownAuditSuspended = b.UnknownAuditSuspended
    /\ a.OfflineSuspended = b.OfflineSuspended
    /\ a.VettedAt = b.VettedAt

getNodeStatus(dbNode) == ReputationStatus(dbNode)

-----------------------------------------------------------------------------
(* recordAuditHistory *)

\* time.Time.Truncate(d): round down to a multiple of d; d <= 0 returns t
\* the time is taken as it is
NoTruncate(t, d) == t

Truncate(t, d) == IF d <= 0 THEN t ELSE t - (t % d)

\* the windows left once the leading windows that start before earliestWindow
\* are deleted (the loop stops at the first window inside the tracking period)
RECURSIVE DeleteOldWindows(_, _)
\* no window is ever dropped
DeleteNoWindows(windows, earliestWindow) == windows

DeleteOldWindows(windows, earliestWindow) ==
    IF windows # <<>> /\ windows[1].WindowStart < earliestWindow
    THEN DeleteOldWindows(Tail(windows), earliestWindow)
    ELSE windows

\* totalWindowScores: sum of OnlineCount / TotalCount over windows 1 .. k
RECURSIVE TotalWindowScores(_, _)
TotalWindowScores(windows, k) ==
    IF k = 0 THEN <<0, 1>>
    ELSE RAdd(TotalWindowScores(windows, k - 1),
              RDiv(RInt(windows[k].OnlineCount), RInt(windows[k].TotalCount)))

\* a score that takes in the last window
RecomputedScoreAll(windows) ==
    RDiv(TotalWindowScores(windows, Len(windows)), RInt(Len(windows)))

\* the sum of the window ratios, not divided by their number
RecomputedScoreUndivided(windows) ==
    IF Len(windows) <= 1 THEN <<1, 1>>
    ELSE TotalWindowScores(windows, Len(windows) - 1)

\* the score recomputed after windows were added or removed
RecomputedScore(windows) ==
    IF Len(windows) <= 1 THEN <<1, 1>>
    ELSE RDiv(TotalWindowScores(windows, Len(windows) - 1),
              RInt(Len(windows) - 1))

\* the latest window with the new audit counted in it
CountAudit(window, online) ==
    [ window EXCEPT !.OnlineCount = IF online THEN @ + 1 ELSE @,
                    !.TotalCount  = @ + 1 ]

\* the test for a passed window is missing
WindowNeverPassed(latestWindowStart, newAuditWindowStartTime) == FALSE

\* the latest window starts after the window of the new audit
WindowPassed(latestWindowStart, newAuditWindowStartTime) ==
    latestWindowStart > newAuditWindowStartTime

\* recordAuditHistory(a, auditTime, online, config): [err, history]
\* a window is appended for every audit
recordAuditHistoryAlwaysAppend(a, auditTime, online, config) ==
    LET newAuditWindowStartTime == Truncate(auditTime, config.WindowSize)
        earliestWindow == newAuditWindowStartTime - config.TrackingPeriod
        kept     == DeleteOldWindows(a.Windows, earliestWindow)
        deleted  == Len(kept) # Len(a.Windows)
        addOne   == TRUE
        windows  == IF addOne
                    THEN Append(kept, [ WindowStart |-> newAuditWindowStartTime,
                                        TotalCount  |-> 0,
                                        OnlineCount |-> 0 ])
                    ELSE kept
        windowsModified == deleted \/ addOne
        latestIndex == Len(windows)
        counted  == [windows EXCEPT ![latestIndex] = CountAudit(@, online)]
    IN  IF WindowPassed(windows[latestIndex].WindowStart, newAuditWindowStartTime)
        THEN [err |-> "window already passed", history |-> a]
        ELSE [err |-> "",
              history |-> [ Windows |-> counted,
                            Score   |-> IF windowsModified
                                        THEN RecomputedScore(counted)
                                        ELSE a.Score ]]

recordAuditHistory(a, auditTime, online, config) ==
    LET newAuditWindowStartTime == Truncate(auditTime, config.WindowSize)
        earliestWindow == newAuditWindowStartTime - config.TrackingPeriod
        kept     == DeleteOldWindows(a.Windows, earliestWindow)
        deleted  == Len(kept) # Len(a.Windows)
        addOne   == kept = <<>> \/ kept[Len(kept)].WindowStart < newAuditWindowStartTime
        windows  == IF addOne
                    THEN Append(kept, [ WindowStart |-> newAuditWindowStartTime,
                                        TotalCount  |-> 0,
                                        OnlineCount |-> 0 ])
                    ELSE kept
        windowsModified == deleted \/ addOne
        latestIndex == Len(windows)
        counted  == [windows EXCEPT ![latestIndex] = CountAudit(@, online)]
    IN  IF WindowPassed(windows[latestIndex].WindowStart, newAuditWindowStartTime)
        THEN [err |-> "window already passed", history |-> a]
        ELSE [err |-> "",
              history |-> [ Windows |-> counted,
                            Score   |-> IF windowsModified
                                        THEN RecomputedScore(counted)
                                        ELSE a.Score ]]

\* the response keeps the default score
AuditHistoryDefaultScore(dbAuditHistory, rec, config) ==
    IF rec.err # ""
    THEN [ err |-> rec.err, row |-> dbAuditHistory,
           res |-> [NewScore |-> <<1, 1>>, TrackingPeriodFull |-> FALSE] ]
    ELSE [ err |-> "",
           row |-> [present |-> TRUE, History |-> rec.history],
           res |-> IF ~dbAuditHistory.present
                   THEN [NewScore |-> <<1, 1>>, TrackingPeriodFull |-> FALSE]
                   ELSE [ NewScore |-> <<1, 1>>,
                          TrackingPeriodFull |->
                             Len(rec.history.Windows) - 1
                                 >= config.TrackingPeriod \div config.WindowSize ]]

\* a missing audit_histories row is not created
AuditHistoryNoCreate(dbAuditHistory, rec, config) ==
    IF rec.err # ""
    THEN [ err |-> rec.err, row |-> dbAuditHistory,
           res |-> [NewScore |-> <<1, 1>>, TrackingPeriodFull |-> FALSE] ]
    ELSE [ err |-> "",
           row |-> IF dbAuditHistory.present
                   THEN [present |-> TRUE, History |-> rec.history]
                   ELSE dbAuditHistory,
           res |-> IF ~dbAuditHistory.present
                   THEN [NewScore |-> <<1, 1>>, TrackingPeriodFull |-> FALSE]
                   ELSE [ NewScore |-> rec.history.Score,
                          TrackingPeriodFull |->
                             Len(rec.history.Windows) - 1
                                 >= config.TrackingPeriod \div config.WindowSize ]]

\* the end of updateAuditHistoryWithTx, rec being what recordAuditHistory
\* returned: [err, row, res] where res is
\* reputation.UpdateAuditHistoryResponse and row the audit_histories row written
AuditHistoryResponse(dbAuditHistory, rec, config) ==
    IF rec.err # ""
    THEN [ err |-> rec.err, row |-> dbAuditHistory,
           res |-> [NewScore |-> <<1, 1>>, TrackingPeriodFull |-> FALSE] ]
    ELSE [ err |-> "",
           row |-> [present |-> TRUE, History |-> rec.history],
           res |-> IF ~dbAuditHistory.present
                   THEN [NewScore |-> <<1, 1>>, TrackingPeriodFull |-> FALSE]
                   ELSE [ NewScore |-> rec.history.Score,
                          TrackingPeriodFull |->
                             Len(rec.history.Windows) - 1
                                 >= config.TrackingPeriod \div config.WindowSize ]]

\* updateAuditHistoryWithTx: the history of the node, or an empty one for a
\* new entry, goes through recordAuditHistory
updateAuditHistoryWithTx(dbAuditHistory, auditTime, online, config) ==
    AuditHistoryResponse(
        dbAuditHistory,
        recordAuditHistory(IF dbAuditHistory.present THEN dbAuditHistory.History
                           ELSE EmptyAuditHistory,
                           auditTime, online, config),
        config)

-----------------------------------------------------------------------------
(* populateUpdateNodeStats *)

\* the fields of updateNodeStats (timeField, int64Field, float64Field, boolField):
\* not set, set to a value, set to NULL
Unset == [set |-> FALSE, isNil |-> FALSE, value |-> 0]

SetTo(v) == [set |-> TRUE, isNil |-> FALSE, value |-> v]

SetNull == [set |-> TRUE, isNil |-> TRUE, value |-> 0]

\* updateReputation: one step of the belief update, v = 1 on success and -1
\* otherwise; newAlpha = lambda*alpha + w*(1+v)/2, newBeta = lambda*beta + w*(1-v)/2
updateReputation(isSuccess, alpha, beta, lambda, w, totalCount) ==
    [ alpha |-> IF isSuccess THEN RAdd(RMul(lambda, alpha), w) ELSE RMul(lambda, alpha),
      beta  |-> IF isSuccess THEN RMul(lambda, beta) ELSE RAdd(RMul(lambda, beta), w),
      count |-> totalCount + 1 ]

\* an Offline outcome leaves the total audit count where it was
OutcomeSwitchOfflineUncounted(dbNode, outcome, normal, unknown) ==
    [ auditAlpha        |-> IF outcome \in {"Success", "Failure"} THEN normal.alpha
                            ELSE dbNode.AuditReputationAlpha,
      auditBeta         |-> IF outcome \in {"Success", "Failure"} THEN normal.beta
                            ELSE dbNode.AuditReputationBeta,
      unknownAuditAlpha |-> IF outcome \in {"Success", "Unknown"} THEN unknown.alpha
                            ELSE dbNode.UnknownAuditReputationAlpha,
      unknownAuditBeta  |-> IF outcome \in {"Success", "Unknown"} THEN unknown.beta
                            ELSE dbNode.UnknownAuditReputationBeta,
      updatedTotalAuditCount |->
          CASE outcome \in {"Success", "Failure"} -> normal.count
            [] outcome = "Unknown" -> unknown.count
            [] outcome = "Offline" -> dbNode.TotalAuditCount ]

\* an Unknown outcome also counts as a failure for the normal pair
OutcomeSwitchUnknownFails(dbNode, outcome, normal, unknown) ==
    [ auditAlpha        |-> IF outcome \in {"Success", "Failure", "Unknown"} THEN normal.alpha
                            ELSE dbNode.AuditReputationAlpha,
      auditBeta         |-> IF outcome \in {"Success", "Failure", "Unknown"} THEN normal.beta
                            ELSE dbNode.AuditReputationBeta,
      unknownAuditAlpha |-> IF outcome \in {"Success", "Unknown"} THEN unknown.alpha
                            ELSE dbNode.UnknownAuditReputationAlpha,
      unknownAuditBeta  |-> IF outcome \in {"Success", "Unknown"} THEN unknown.beta
                            ELSE dbNode.UnknownAuditReputationBeta,
      updatedTotalAuditCount |->
          CASE outcome \in {"Success", "Failure"} -> normal.count
            [] outcome = "Unknown" -> unknown.count
            [] outcome = "Offline" -> dbNode.TotalAuditCount + 1 ]

\* the four belief parameters start at zero, not at the row's values
OutcomeSwitchZeroInit(dbNode, outcome, normal, unknown) ==
    [ auditAlpha        |-> IF outcome \in {"Success", "Failure"} THEN normal.alpha
                            ELSE <<0, 1>>,
      auditBeta         |-> IF outcome \in {"Success", "Failure"} THEN normal.beta
                            ELSE <<0, 1>>,
      unknownAuditAlpha |-> IF outcome \in {"Success", "Unknown"} THEN unknown.alpha
                            ELSE <<0, 1>>,
      unknownAuditBeta  |-> IF outcome \in {"Success", "Unknown"} THEN unknown.beta
                            ELSE <<0, 1>>,
      updatedTotalAuditCount |->
          CASE outcome \in {"Success", "Failure"} -> normal.count
            [] outcome = "Unknown" -> unknown.count
            [] outcome = "Offline" -> dbNode.TotalAuditCount + 1 ]

\* the results of updateReputation are assigned to beta and alpha, in that order
OutcomeSwitchSwapped(dbNode, outcome, normal, unknown) ==
    [ auditAlpha        |-> IF outcome \in {"Success", "Failure"} THEN normal.beta
                            ELSE dbNode.AuditReputationAlpha,
      auditBeta         |-> IF outcome \in {"Success", "Failure"} THEN normal.alpha
                            ELSE dbNode.AuditReputationBeta,
      unknownAuditAlpha |-> IF outcome \in {"Success", "Unknown"} THEN unknown.beta
                            ELSE dbNode.UnknownAuditReputationAlpha,
      unknownAuditBeta  |-> IF outcome \in {"Success", "Unknown"} THEN unknown.alpha
                            ELSE dbNode.UnknownAuditReputationBeta,
      updatedTotalAuditCount |->
          CASE outcome \in {"Success", "Failure"} -> normal.count
            [] outcome = "Unknown" -> unknown.count
            [] outcome = "Offline" -> dbNode.TotalAuditCount + 1 ]

\* the switch on updateReq.AuditOutcome, normal and unknown being what
\* updateReputation returns for the two pairs: the new belief parameters and
\* count
OutcomeSwitch(dbNode, outcome, normal, unknown) ==
    [ auditAlpha        |-> IF outcome \in {"Success", "Failure"} THEN normal.alpha
                            ELSE dbNode.AuditReputationAlpha,
      auditBeta         |-> IF outcome \in {"Success", "Failure"} THEN normal.beta
                            ELSE dbNode.AuditReputationBeta,
      unknownAuditAlpha |-> IF outcome \in {"Success", "Unknown"} THEN unknown.alpha
                            ELSE dbNode.UnknownAuditReputationAlpha,
      unknownAuditBeta  |-> IF outcome \in {"Success", "Unknown"} THEN unknown.beta
                            ELSE dbNode.UnknownAuditReputationBeta,
      updatedTotalAuditCount |->
          CASE outcome \in {"Success", "Failure"} -> normal.count
            [] outcome = "Unknown" -> unknown.count
            [] outcome = "Offline" -> dbNode.TotalAuditCount + 1 ]

\* success raises both pairs, failure lowers the normal pair, unknown lowers
\* the unknown pair, offline touches neither
BeliefUpdate(dbNode, outcome, updateReq) ==
    OutcomeSwitch(dbNode, outcome,
        updateReputation(outcome = "Success", dbNode.AuditReputationAlpha,
                         dbNode.AuditReputationBeta, updateReq.AuditLambda,
                         updateReq.AuditWeight, dbNode.TotalAuditCount),
        updateReputation(outcome = "Success", dbNode.UnknownAuditReputationAlpha,
                         dbNode.UnknownAuditReputationBeta, updateReq.AuditLambda,
                         updateReq.AuditWeight, dbNode.TotalAuditCount))

\* alpha / (alpha + beta) <= threshold as float64 computes it: 0/0 is NaN and
\* no comparison with NaN holds
ReputationAtMost(alpha, beta, threshold) ==
    LET sum == RAdd(alpha, beta)
    IN  sum[1] # 0 /\ RLeq(RDiv(alpha, sum), threshold)

\* vetting one audit late
VettedAtUpdateLate(dbNode, updatedTotalAuditCount, updateReq, now) ==
    IF dbNode.VettedAt = Nil /\ updatedTotalAuditCount > updateReq.AuditsRequiredForVetting
    THEN SetTo(now)
    ELSE Unset

\* vetting again at every audit past the threshold
VettedAtUpdateAgain(dbNode, updatedTotalAuditCount, updateReq, now) ==
    IF updatedTotalAuditCount >= updateReq.AuditsRequiredForVetting
    THEN SetTo(now)
    ELSE Unset

\* vetting: the VettedAt field of the update
VettedAtUpdate(dbNode, updatedTotalAuditCount, updateReq, now) ==
    IF dbNode.VettedAt = Nil /\ updatedTotalAuditCount >= updateReq.AuditsRequiredForVetting
    THEN SetTo(now)
    ELSE Unset

\* the audit reputation is compared with <
AuditDisqualifiedBelow(auditAlpha, auditBeta, updateReq) ==
    RLt(RDiv(auditAlpha, RAdd(auditAlpha, auditBeta)), updateReq.AuditDQ)

\* disqualification case a: the audit reputation is at or below the threshold
AuditDisqualified(auditAlpha, auditBeta, updateReq) ==
    ReputationAtMost(auditAlpha, auditBeta, updateReq.AuditDQ)

\* the update evaluates time.Since(*dbNode.UnknownAuditSuspended): the unknown
\* audit reputation b holds is at or below the threshold, the outcome is not a
\* success and the node was suspended before this update
ReadsClockWith(dbNode, outcome, updateReq, b) ==
    /\ dbNode.Disqualified = Nil
    /\ ReputationAtMost(b.unknownAuditAlpha, b.unknownAuditBeta, updateReq.AuditDQ)
    /\ outcome # "Success"
    /\ dbNode.UnknownAuditSuspended # Nil

ReadsClock(dbNode, outcome, updateReq) ==
    ReadsClockWith(dbNode, outcome, updateReq, BeliefUpdate(dbNode, outcome, updateReq))

\* a suspension that no audit lifts
UnknownAuditUpdateNoLift(dbNode, unknownAuditAlpha, unknownAuditBeta, outcome, updateReq, now, wall) ==
    LET suspend == IF dbNode.UnknownAuditSuspended = Nil THEN SetTo(now) ELSE Unset
        graceExpired ==
            /\ outcome # "Success"
            /\ dbNode.UnknownAuditSuspended # Nil
            /\ wall - dbNode.UnknownAuditSuspended > updateReq.SuspensionGracePeriod
            /\ updateReq.SuspensionDQEnabled
    IN  IF ReputationAtMost(unknownAuditAlpha, unknownAuditBeta, updateReq.AuditDQ)
        THEN [ UnknownAuditSuspended |-> IF graceExpired THEN SetNull ELSE suspend,
               disqualified          |-> graceExpired ]
        ELSE [ UnknownAuditSuspended |-> Unset, disqualified |-> FALSE ]

\* the grace period measured from the observation time, not the clock
UnknownAuditUpdateSinceNow(dbNode, unknownAuditAlpha, unknownAuditBeta, outcome, updateReq, now, wall) ==
    LET suspend == IF dbNode.UnknownAuditSuspended = Nil THEN SetTo(now) ELSE Unset
        graceExpired ==
            /\ outcome # "Success"
            /\ dbNode.UnknownAuditSuspended # Nil
            /\ now - dbNode.UnknownAuditSuspended > updateReq.SuspensionGracePeriod
            /\ updateReq.SuspensionDQEnabled
    IN  IF ReputationAtMost(unknownAuditAlpha, unknownAuditBeta, updateReq.AuditDQ)
        THEN [ UnknownAuditSuspended |-> IF graceExpired THEN SetNull ELSE suspend,
               disqualified          |-> graceExpired ]
        ELSE [ UnknownAuditSuspended |->
                  IF dbNode.UnknownAuditSuspended # Nil THEN SetNull ELSE Unset,
               disqualified          |-> FALSE ]

\* the grace period tested whether or not the node was suspended before
UnknownAuditUpdateNoPrior(dbNode, unknownAuditAlpha, unknownAuditBeta, outcome, updateReq, now, wall) ==
    LET suspend == IF dbNode.UnknownAuditSuspended = Nil THEN SetTo(now) ELSE Unset
        graceExpired ==
            /\ outcome # "Success"
            /\ wall - dbNode.UnknownAuditSuspended > updateReq.SuspensionGracePeriod
            /\ updateReq.SuspensionDQEnabled
    IN  IF ReputationAtMost(unknownAuditAlpha, unknownAuditBeta, updateReq.AuditDQ)
        THEN [ UnknownAuditSuspended |-> IF graceExpired THEN SetNull ELSE suspend,
               disqualified          |-> graceExpired ]
        ELSE [ UnknownAuditSuspended |->
                  IF dbNode.UnknownAuditSuspended # Nil THEN SetNull ELSE Unset,
               disqualified          |-> FALSE ]

\* only a successful audit lifts the suspension
UnknownAuditUpdateLiftOnSuccess(dbNode, unknownAuditAlpha, unknownAuditBeta, outcome, updateReq, now, wall) ==
    LET suspend == IF dbNode.UnknownAuditSuspended = Nil THEN SetTo(now) ELSE Unset
        graceExpired ==
            /\ outcome # "Success"
            /\ dbNode.UnknownAuditSuspended # Nil
            /\ ~suspend.set
            /\ wall - dbNode.UnknownAuditSuspended > updateReq.SuspensionGracePeriod
            /\ updateReq.SuspensionDQEnabled
    IN  IF ReputationAtMost(unknownAuditAlpha, unknownAuditBeta, updateReq.AuditDQ)
        THEN [ UnknownAuditSuspended |-> IF graceExpired THEN SetNull ELSE suspend,
               disqualified          |-> graceExpired ]
        ELSE [ UnknownAuditSuspended |->
                  IF dbNode.UnknownAuditSuspended # Nil /\ outcome = "Success"
                  THEN SetNull ELSE Unset,
               disqualified          |-> FALSE ]

\* every audit at or below the threshold restarts the suspension
UnknownAuditUpdateRestarts(dbNode, unknownAuditAlpha, unknownAuditBeta, outcome, updateReq, now, wall) ==
    LET suspend == IF dbNode.UnknownAuditSuspended # now THEN SetTo(now) ELSE Unset
        graceExpired ==
            /\ outcome # "Success"
            /\ dbNode.UnknownAuditSuspended # Nil
            /\ ~suspend.set
            /\ wall - dbNode.UnknownAuditSuspended > updateReq.SuspensionGracePeriod
            /\ updateReq.SuspensionDQEnabled
    IN  IF ReputationAtMost(unknownAuditAlpha, unknownAuditBeta, updateReq.AuditDQ)
        THEN [ UnknownAuditSuspended |-> IF graceExpired THEN SetNull ELSE suspend,
               disqualified          |-> graceExpired ]
        ELSE [ UnknownAuditSuspended |->
                  IF dbNode.UnknownAuditSuspended # Nil THEN SetNull ELSE Unset,
               disqualified          |-> FALSE ]

\* the grace period disqualifies whether or not SuspensionDQEnabled
UnknownAuditUpdateAlwaysDQ(dbNode, unknownAuditAlpha, unknownAuditBeta, outcome, updateReq, now, wall) ==
    LET suspend == IF dbNode.UnknownAuditSuspended = Nil THEN SetTo(now) ELSE Unset
        graceExpired ==
            /\ outcome # "Success"
            /\ dbNode.UnknownAuditSuspended # Nil
            /\ ~suspend.set
            /\ wall - dbNode.UnknownAuditSuspended > updateReq.SuspensionGracePeriod
    IN  IF ReputationAtMost(unknownAuditAlpha, unknownAuditBeta, updateReq.AuditDQ)
        THEN [ UnknownAuditSuspended |-> IF graceExpired THEN SetNull ELSE suspend,
               disqualified          |-> graceExpired ]
        ELSE [ UnknownAuditSuspended |->
                  IF dbNode.UnknownAuditSuspended # Nil THEN SetNull ELSE Unset,
               disqualified          |-> FALSE ]

\* unknown-audit suspension and disqualification case b:
\* [UnknownAuditSuspended: field, disqualified: BOOLEAN].  wall is the clock
\* time.Since reads.
UnknownAuditUpdate(dbNode, unknownAuditAlpha, unknownAuditBeta, outcome, updateReq, now, wall) ==
    LET suspend == IF dbNode.UnknownAuditSuspended = Nil THEN SetTo(now) ELSE Unset
        graceExpired ==
            /\ outcome # "Success"
            /\ dbNode.UnknownAuditSuspended # Nil
            /\ ~suspend.set
            /\ wall - dbNode.UnknownAuditSuspended > updateReq.SuspensionGracePeriod
            /\ updateReq.SuspensionDQEnabled
    IN  IF ReputationAtMost(unknownAuditAlpha, unknownAuditBeta, updateReq.AuditDQ)
        THEN [ UnknownAuditSuspended |-> IF graceExpired THEN SetNull ELSE suspend,
               disqualified          |-> graceExpired ]
        ELSE [ UnknownAuditSuspended |->
                  IF dbNode.UnknownAuditSuspended # Nil THEN SetNull ELSE Unset,
               disqualified          |-> FALSE ]

\* the score alone decides, whether or not the tracking period is full
PenalizeOfflineNodeAnyPeriod(updateReq, auditHistoryResponse) ==
    RLt(auditHistoryResponse.NewScore, updateReq.AuditHistory.OfflineThreshold)

\* penalizeOfflineNode
PenalizeOfflineNode(updateReq, auditHistoryResponse) ==
    /\ RLt(auditHistoryResponse.NewScore, updateReq.AuditHistory.OfflineThreshold)
    /\ auditHistoryResponse.TrackingPeriodFull

\* offline rules that disqualify nobody
OfflineUpdateNoDQ(dbNode, updateReq, auditHistoryResponse, now) ==
    LET penalizeOfflineNode == PenalizeOfflineNode(updateReq, auditHistoryResponse)
        trackingPeriodPassed ==
            now > dbNode.UnderReview + updateReq.AuditHistory.GracePeriod
                      + updateReq.AuditHistory.TrackingPeriod
    IN  IF ~updateReq.AuditHistory.OfflineSuspensionEnabled
        THEN [ OfflineSuspended   |-> IF dbNode.OfflineSuspended # Nil THEN SetNull ELSE Unset,
               OfflineUnderReview |-> IF dbNode.UnderReview # Nil THEN SetNull ELSE Unset,
               disqualified       |-> FALSE ]
        ELSE IF dbNode.UnderReview # Nil
        THEN IF trackingPeriodPassed /\ ~penalizeOfflineNode
             THEN [ OfflineSuspended   |-> SetNull,
                    OfflineUnderReview |-> SetNull,
                    disqualified       |-> FALSE ]
             ELSE [ OfflineSuspended   |->
                        IF ~penalizeOfflineNode /\ dbNode.OfflineSuspended # Nil THEN SetNull
                        ELSE IF penalizeOfflineNode /\ dbNode.OfflineSuspended = Nil
                        THEN SetTo(now)
                        ELSE Unset,
                    OfflineUnderReview |-> Unset,
                    disqualified       |-> FALSE ]
        ELSE IF penalizeOfflineNode
        THEN [ OfflineSuspended   |-> SetTo(now),
               OfflineUnderReview |-> SetTo(now),
               disqualified       |-> FALSE ]
        ELSE [ OfflineSuspended   |-> Unset,
               OfflineUnderReview |-> Unset,
               disqualified       |-> FALSE ]

\* OfflineSuspensionEnabled is not looked at
OfflineUpdateAlwaysEnabled(dbNode, updateReq, auditHistoryResponse, now) ==
    LET penalizeOfflineNode == PenalizeOfflineNode(updateReq, auditHistoryResponse)
        gracePeriodEnd    == dbNode.UnderReview + updateReq.AuditHistory.GracePeriod
        trackingPeriodEnd == gracePeriodEnd + updateReq.AuditHistory.TrackingPeriod
        trackingPeriodPassed == now > trackingPeriodEnd
        toggled == IF ~penalizeOfflineNode /\ dbNode.OfflineSuspended # Nil THEN SetNull
                   ELSE IF penalizeOfflineNode /\ dbNode.OfflineSuspended = Nil THEN SetTo(now)
                   ELSE Unset
    IN  IF FALSE
        THEN [ OfflineSuspended   |-> IF dbNode.OfflineSuspended # Nil THEN SetNull ELSE Unset,
               OfflineUnderReview |-> IF dbNode.UnderReview # Nil THEN SetNull ELSE Unset,
               disqualified       |-> FALSE ]
        ELSE IF dbNode.UnderReview # Nil
        THEN IF trackingPeriodPassed /\ ~penalizeOfflineNode
             THEN [ OfflineSuspended   |-> SetNull,
                    OfflineUnderReview |-> SetNull,
                    disqualified       |-> FALSE ]
             ELSE [ OfflineSuspended   |-> toggled,
                    OfflineUnderReview |-> Unset,
                    disqualified       |-> trackingPeriodPassed /\ penalizeOfflineNode
                                           /\ updateReq.AuditHistory.OfflineDQEnabled ]
        ELSE IF penalizeOfflineNode
        THEN [ OfflineSuspended   |-> SetTo(now),
               OfflineUnderReview |-> SetTo(now),
               disqualified       |-> FALSE ]
        ELSE [ OfflineSuspended   |-> Unset,
               OfflineUnderReview |-> Unset,
               disqualified       |-> FALSE ]

\* a suspension is not lifted while the node is under review
OfflineUpdateNoLift(dbNode, updateReq, auditHistoryResponse, now) ==
    LET penalizeOfflineNode == PenalizeOfflineNode(updateReq, auditHistoryResponse)
        gracePeriodEnd    == dbNode.UnderReview + updateReq.AuditHistory.GracePeriod
        trackingPeriodEnd == gracePeriodEnd + updateReq.AuditHistory.TrackingPeriod
        trackingPeriodPassed == now > trackingPeriodEnd
        toggled == IF penalizeOfflineNode /\ dbNode.OfflineSuspended = Nil THEN SetTo(now)
                   ELSE Unset
    IN  IF ~updateReq.AuditHistory.OfflineSuspensionEnabled
        THEN [ OfflineSuspended   |-> IF dbNode.OfflineSuspended # Nil THEN SetNull ELSE Unset,
               OfflineUnderReview |-> IF dbNode.UnderReview # Nil THEN SetNull ELSE Unset,
               disqualified       |-> FALSE ]
        ELSE IF dbNode.UnderReview # Nil
        THEN IF trackingPeriodPassed /\ ~penalizeOfflineNode
             THEN [ OfflineSuspended   |-> SetNull,
                    OfflineUnderReview |-> SetNull,
                    disqualified       |-> FALSE ]
             ELSE [ OfflineSuspended   |-> toggled,
                    OfflineUnderReview |-> Unset,
                    disqualified       |-> trackingPeriodPassed /\ penalizeOfflineNode
                                           /\ updateReq.AuditHistory.OfflineDQEnabled ]
        ELSE IF penalizeOfflineNode
        THEN [ OfflineSuspended   |-> SetTo(now),
               OfflineUnderReview |-> SetTo(now),
               disqualified       |-> FALSE ]
        ELSE [ OfflineSuspended   |-> Unset,
               OfflineUnderReview |-> Unset,
               disqualified       |-> FALSE ]

\* the review ends as soon as the node is not penalized
OfflineUpdateEarlyClear(dbNode, updateReq, auditHistoryResponse, now) ==
    LET penalizeOfflineNode == PenalizeOfflineNode(updateReq, auditHistoryResponse)
        gracePeriodEnd    == dbNode.UnderReview + updateReq.AuditHistory.GracePeriod
        trackingPeriodEnd == gracePeriodEnd + updateReq.AuditHistory.TrackingPeriod
        trackingPeriodPassed == now > trackingPeriodEnd
        toggled == IF ~penalizeOfflineNode /\ dbNode.OfflineSuspended # Nil THEN SetNull
                   ELSE IF penalizeOfflineNode /\ dbNode.OfflineSuspended = Nil THEN SetTo(now)
                   ELSE Unset
    IN  IF ~updateReq.AuditHistory.OfflineSuspensionEnabled
        THEN [ OfflineSuspended   |-> IF dbNode.OfflineSuspended # Nil THEN SetNull ELSE Unset,
               OfflineUnderReview |-> IF dbNode.UnderReview # Nil THEN SetNull ELSE Unset,
               disqualified       |-> FALSE ]
        ELSE IF dbNode.UnderReview # Nil
        THEN IF ~penalizeOfflineNode
             THEN [ OfflineSuspended   |-> SetNull,
                    OfflineUnderReview |-> SetNull,
                    disqualified       |-> FALSE ]
             ELSE [ OfflineSuspended   |-> toggled,
                    OfflineUnderReview |-> Unset,
                    disqualified       |-> trackingPeriodPassed /\ penalizeOfflineNode
                                           /\ updateReq.AuditHistory.OfflineDQEnabled ]
        ELSE IF penalizeOfflineNode
        THEN [ OfflineSuspended   |-> SetTo(now),
               OfflineUnderReview |-> SetTo(now),
               disqualified       |-> FALSE ]
        ELSE [ OfflineSuspended   |-> Unset,
               OfflineUnderReview |-> Unset,
               disqualified       |-> FALSE ]

\* the node is disqualified when the tracking period end is reached
OfflineUpdateEarlyDQ(dbNode, updateReq, auditHistoryResponse, now) ==
    LET penalizeOfflineNode == PenalizeOfflineNode(updateReq, auditHistoryResponse)
        gracePeriodEnd    == dbNode.UnderReview + updateReq.AuditHistory.GracePeriod
        trackingPeriodEnd == gracePeriodEnd + updateReq.AuditHistory.TrackingPeriod
        trackingPeriodPassed == now >= trackingPeriodEnd
        toggled == IF ~penalizeOfflineNode /\ dbNode.OfflineSuspended # Nil THEN SetNull
                   ELSE IF penalizeOfflineNode /\ dbNode.OfflineSuspended = Nil THEN SetTo(now)
                   ELSE Unset
    IN  IF ~updateReq.AuditHistory.OfflineSuspensionEnabled
        THEN [ OfflineSuspended   |-> IF dbNode.OfflineSuspended # Nil THEN SetNull ELSE Unset,
               OfflineUnderReview |-> IF dbNode.UnderReview # Nil THEN SetNull ELSE Unset,
               disqualified       |-> FALSE ]
        ELSE IF dbNode.UnderReview # Nil
        THEN IF trackingPeriodPassed /\ ~penalizeOfflineNode
             THEN [ OfflineSuspended   |-> SetNull,
                    OfflineUnderReview |-> SetNull,
                    disqualified       |-> FALSE ]
             ELSE [ OfflineSuspended   |-> toggled,
                    OfflineUnderReview |-> Unset,
                    disqualified       |-> trackingPeriodPassed /\ penalizeOfflineNode
                                           /\ updateReq.AuditHistory.OfflineDQEnabled ]
        ELSE IF penalizeOfflineNode
        THEN [ OfflineSuspended   |-> SetTo(now),
               OfflineUnderReview |-> SetTo(now),
               disqualified       |-> FALSE ]
        ELSE [ OfflineSuspended   |-> Unset,
               OfflineUnderReview |-> Unset,
               disqualified       |-> FALSE ]

\* a penalized node is suspended without a review
OfflineUpdateNoReview(dbNode, updateReq, auditHistoryResponse, now) ==
    LET penalizeOfflineNode == PenalizeOfflineNode(updateReq, auditHistoryResponse)
        gracePeriodEnd    == dbNode.UnderReview + updateReq.AuditHistory.GracePeriod
        trackingPeriodEnd == gracePeriodEnd + updateReq.AuditHistory.TrackingPeriod
        trackingPeriodPassed == now > trackingPeriodEnd
        toggled == IF ~penalizeOfflineNode /\ dbNode.OfflineSuspended # Nil THEN SetNull
                   ELSE IF penalizeOfflineNode /\ dbNode.OfflineSuspended = Nil THEN SetTo(now)
                   ELSE Unset
    IN  IF ~updateReq.AuditHistory.OfflineSuspensionEnabled
        THEN [ OfflineSuspended   |-> IF dbNode.OfflineSuspended # Nil THEN SetNull ELSE Unset,
               OfflineUnderReview |-> IF dbNode.UnderReview # Nil THEN SetNull ELSE Unset,
               disqualified       |-> FALSE ]
        ELSE IF dbNode.UnderReview # Nil
        THEN IF trackingPeriodPassed /\ ~penalizeOfflineNode
             THEN [ OfflineSuspended   |-> SetNull,
                    OfflineUnderReview |-> SetNull,
                    disqualified       |-> FALSE ]
             ELSE [ OfflineSuspended   |-> toggled,
                    OfflineUnderReview |-> Unset,
                    disqualified       |-> trackingPeriodPassed /\ penalizeOfflineNode
                                           /\ updateReq.AuditHistory.OfflineDQEnabled ]
        ELSE IF penalizeOfflineNode
        THEN [ OfflineSuspended   |-> SetTo(now),
               OfflineUnderReview |-> Unset,
               disqualified       |-> FALSE ]
        ELSE [ OfflineSuspended   |-> Unset,
               OfflineUnderReview |-> Unset,
               disqualified       |-> FALSE ]

\* offline suspension, review and disqualification:
\* [OfflineSuspended: field, OfflineUnderReview: field, disqualified: BOOLEAN]
OfflineUpdate(dbNode, updateReq, auditHistoryResponse, now) ==
    LET penalizeOfflineNode == PenalizeOfflineNode(updateReq, auditHistoryResponse)
        gracePeriodEnd    == dbNode.UnderReview + updateReq.AuditHistory.GracePeriod
        trackingPeriodEnd == gracePeriodEnd + updateReq.AuditHistory.TrackingPeriod
        trackingPeriodPassed == now > trackingPeriodEnd
        toggled == IF ~penalizeOfflineNode /\ dbNode.OfflineSuspended # Nil THEN SetNull
                   ELSE IF penalizeOfflineNode /\ dbNode.OfflineSuspended = Nil THEN SetTo(now)
                   ELSE Unset
    IN  IF ~updateReq.AuditHistory.OfflineSuspensionEnabled
        THEN [ OfflineSuspended   |-> IF dbNode.OfflineSuspended # Nil THEN SetNull ELSE Unset,
               OfflineUnderReview |-> IF dbNode.UnderReview # Nil THEN SetNull ELSE Unset,
               disqualified       |-> FALSE ]
        ELSE IF dbNode.UnderReview # Nil
        THEN IF trackingPeriodPassed /\ ~penalizeOfflineNode
             THEN [ OfflineSuspended   |-> SetNull,
                    OfflineUnderReview |-> SetNull,
                    disqualified       |-> FALSE ]
             ELSE [ OfflineSuspended   |-> toggled,
                    OfflineUnderReview |-> Unset,
                    disqualified       |-> trackingPeriodPassed /\ penalizeOfflineNode
                                           /\ updateReq.AuditHistory.OfflineDQEnabled ]
        ELSE IF penalizeOfflineNode
        THEN [ OfflineSuspended   |-> SetTo(now),
               OfflineUnderReview |-> SetTo(now),
               disqualified       |-> FALSE ]
        ELSE [ OfflineSuspended   |-> Unset,
               OfflineUnderReview |-> Unset,
               disqualified       |-> FALSE ]

\* the update leaves Contained out
updateNodeStatsKeepsContained(dbNode, outcome, updateReq, auditHistoryResponse, now, b, u, o) ==
    [ TotalAuditCount             |-> SetTo(b.updatedTotalAuditCount),
      AuditReputationAlpha        |-> SetTo(b.auditAlpha),
      AuditReputationBeta         |-> SetTo(b.auditBeta),
      UnknownAuditReputationAlpha |-> SetTo(b.unknownAuditAlpha),
      UnknownAuditReputationBeta  |-> SetTo(b.unknownAuditBeta),
      Contained                   |-> Unset,
      OnlineScore                 |-> SetTo(auditHistoryResponse.NewScore),
      VettedAt                    |-> VettedAtUpdate(dbNode, b.updatedTotalAuditCount,
                                                     updateReq, now),
      Disqualified                |->
          IF AuditDisqualified(b.auditAlpha, b.auditBeta, updateReq)
             \/ u.disqualified \/ o.disqualified
          THEN SetTo(now) ELSE Unset,
      UnknownAuditSuspended       |-> u.UnknownAuditSuspended,
      LastContactSuccess          |-> IF outcome # "Offline" THEN SetTo(now) ELSE Unset,
      LastContactFailure          |-> IF outcome # "Offline" THEN Unset ELSE SetTo(now),
      AuditSuccessCount           |->
          IF outcome = "Success" THEN SetTo(dbNode.AuditSuccessCount + 1) ELSE Unset,
      OfflineSuspended            |-> o.OfflineSuspended,
      OfflineUnderReview          |-> o.OfflineUnderReview ]

\* the updateNodeStats returned: b the belief update, u the unknown-audit
\* rules, o the offline rules
updateNodeStats(dbNode, outcome, updateReq, auditHistoryResponse, now, b, u, o) ==
    [ TotalAuditCount             |-> SetTo(b.updatedTotalAuditCount),
      AuditReputationAlpha        |-> SetTo(b.auditAlpha),
      AuditReputationBeta         |-> SetTo(b.auditBeta),
      UnknownAuditReputationAlpha |-> SetTo(b.unknownAuditAlpha),
      UnknownAuditReputationBeta  |-> SetTo(b.unknownAuditBeta),
      Contained                   |-> SetTo(FALSE),
      OnlineScore                 |-> SetTo(auditHistoryResponse.NewScore),
      VettedAt                    |-> VettedAtUpdate(dbNode, b.updatedTotalAuditCount,
                                                     updateReq, now),
      Disqualified                |->
          IF AuditDisqualified(b.auditAlpha, b.auditBeta, updateReq)
             \/ u.disqualified \/ o.disqualified
          THEN SetTo(now) ELSE Unset,
      UnknownAuditSuspended       |-> u.UnknownAuditSuspended,
      LastContactSuccess          |-> IF outcome # "Offline" THEN SetTo(now) ELSE Unset,
      LastContactFailure          |-> IF outcome # "Offline" THEN Unset ELSE SetTo(now),
      AuditSuccessCount           |->
          IF outcome = "Success" THEN SetTo(dbNode.AuditSuccessCount + 1) ELSE Unset,
      OfflineSuspended            |-> o.OfflineSuspended,
      OfflineUnderReview          |-> o.OfflineUnderReview ]

\* the rules that follow the belief update b
DecisionsAfter(dbNode, outcome, updateReq, auditHistoryResponse, now, wall, b) ==
    updateNodeStats(dbNode, outcome, updateReq, auditHistoryResponse, now, b,
        UnknownAuditUpdate(dbNode, b.unknownAuditAlpha, b.unknownAuditBeta,
                           outcome, updateReq, now, wall),
        OfflineUpdate(dbNode, updateReq, auditHistoryResponse, now))

\* populateUpdateNodeStats(dbNode, updateReq, auditHistoryResponse, now); wall
\* is the clock time.Since reads
populateUpdateNodeStats(dbNode, outcome, updateReq, auditHistoryResponse, now, wall) ==
    DecisionsAfter(dbNode, outcome, updateReq, auditHistoryResponse, now, wall,
                   BeliefUpdate(dbNode, outcome, updateReq))

\* the dbx.Reputation_Update_Fields built from the updateNodeStats update;
\* LastContactSuccess and LastContactFailure are not copied
ReputationUpdateFields(dbNode, outcome, update) ==
    [ VettedAt                    |-> update.VettedAt,
      TotalAuditCount             |-> update.TotalAuditCount,
      AuditReputationAlpha        |-> update.AuditReputationAlpha,
      AuditReputationBeta         |-> update.AuditReputationBeta,
      Disqualified                |-> update.Disqualified,
      UnknownAuditReputationAlpha |-> update.UnknownAuditReputationAlpha,
      UnknownAuditReputationBeta  |-> update.UnknownAuditReputationBeta,
      UnknownAuditSuspended       |-> update.UnknownAuditSuspended,
      AuditSuccessCount           |->
          IF outcome = "Success" THEN SetTo(dbNode.AuditSuccessCount + 1)
          ELSE update.AuditSuccessCount,
      Contained                   |-> update.Contained,
      OnlineScore                 |-> update.OnlineScore,
      OfflineSuspended            |-> update.OfflineSuspended,
      UnderReview                 |-> update.OfflineUnderReview ]

\* populateUpdateFields
populateUpdateFields(dbNode, outcome, updateReq, auditHistoryResponse, now, wall) ==
    ReputationUpdateFields(dbNode, outcome,
        populateUpdateNodeStats(dbNode, outcome, updateReq, auditHistoryResponse, now, wall))

\* the value a column takes under one update field
Column(old, f) == IF ~f.set THEN old ELSE IF f.isNil THEN Nil ELSE f.value

\* tx.Update_Reputation_By_Id: the row with the set fields written
UpdateReputationById(row, updateFields) ==
    [ row EXCEPT
        !.VettedAt                    = Column(@, updateFields.VettedAt),
        !.TotalAuditCount             = Column(@, updateFields.TotalAuditCount),
        !.AuditReputationAlpha        = Column(@, updateFields.AuditReputationAlpha),
        !.AuditReputationBeta         = Column(@, updateFields.AuditReputationBeta),
        !.Disqualified                = Column(@, updateFields.Disqualified),
        !.UnknownAuditReputationAlpha = Column(@, updateFields.UnknownAuditReputationAlpha),
        !.UnknownAuditReputationBeta  = Column(@, updateFields.UnknownAuditReputationBeta),
        !.UnknownAuditSuspended       = Column(@, updateFields.UnknownAuditSuspended),
        !.AuditSuccessCount           = Column(@, updateFields.AuditSuccessCount),
        !.Contained                   = Column(@, updateFields.Contained),
        !.OnlineScore                 = Column(@, updateFields.OnlineScore),
        !.OfflineSuspended            = Column(@, updateFields.OfflineSuspended),
        !.UnderReview                 = Column(@, updateFields.UnderReview) ]

-----------------------------------------------------------------------------
(* The calls *)

\* what a finished call leaves in last
Call(op, n, outcome, now, wall, err, changed, status) ==
    [ op      |-> op,
      node    |-> n,
      outcome |-> outcome,
      now     |-> now,
      wall    |-> wall,
      err     |-> err,
      changed |-> changed,
      status  |-> status,
      pre     |-> reputations[n],
      preHistory |-> audit_histories[n] ]

NoCall ==
    [ op      |-> "none",
      node    |-> "n1",
      outcome |-> "Success",
      now     |-> 0,
      wall    |-> 0,
      err     |-> "",
      changed |-> FALSE,
      status  |-> ZeroStatus,
      pre     |-> NoReputation,
      preHistory |-> NoAuditHistory ]

\* the audits counted in the windows of a node's history
RECURSIVE AuditsIn(_)
AuditsIn(windows) ==
    IF windows = <<>> THEN 0 ELSE windows[1].TotalCount + AuditsIn(Tail(windows))

\* the early return is missing
AlreadyDisqualifiedNever(dbNode) == FALSE

\* do not update reputation if node is disqualified
AlreadyDisqualified(dbNode) == dbNode.Disqualified # Nil

\* what Update returns and writes: dbNode the row read or inserted, ah the
\* outcome of updateAuditHistoryWithTx, updated the row Update_Reputation_By_Id
\* returns
UpdateResult(row, historyRow, dbNode, ah, updated) ==
    IF AlreadyDisqualified(dbNode)
    THEN \* the transaction returns early: oldStatus keeps its zero value
         [ err |-> "", row |-> dbNode, history |-> historyRow,
           changed |-> ~StatusEqual(ZeroStatus, ReputationStatus(dbNode)),
           status |-> getNodeStatus(dbNode) ]
    ELSE IF ah.err # ""
    THEN \* the transaction is rolled back
         [ err |-> ah.err, row |-> row, history |-> historyRow,
           changed |-> FALSE, status |-> ZeroStatus ]
    ELSE [ err |-> "", row |-> updated, history |-> ah.row,
           changed |-> ~StatusEqual(ReputationStatus(dbNode), ReputationStatus(updated)),
           status |-> getNodeStatus(updated) ]

\* the transaction once dbNode is read or inserted and the audit history
\* updated
UpdateNode(row, historyRow, outcome, updateReq, now, wall, dbNode, ah) ==
    UpdateResult(row, historyRow, dbNode, ah,
        UpdateReputationById(dbNode,
            populateUpdateFields(dbNode, outcome, updateReq, ah.res, now, wall)))

\* the transaction body of reputations.Update run on the rows it reads:
\* [err, row, history, changed, status]
UpdateTx(row, historyRow, outcome, updateReq, now, wall) ==
    UpdateNode(row, historyRow, outcome, updateReq, now, wall,
        IF row.present THEN row ELSE NewReputation,
        updateAuditHistoryWithTx(historyRow, now, outcome # "Offline",
                                 updateReq.AuditHistory))

\* how far past the observation time the wall clock may be when a call runs
Skews == {0, 1}

\* the wall-clock times a call observed at now may read; a call that does not
\* read the clock has nothing to choose
WallTimes(now, readsClock) == IF readsClock THEN {now + d : d \in Skews} ELSE {now}

\* reputations.Update(ctx, updateReq, now) as one serializable transaction;
\* wall is the time the clock shows while it runs
Update(n, outcome, now, wall) ==
    /\ \E r \in {UpdateTx(reputations[n], audit_histories[n], outcome, cfg, now, wall)} :
           /\ reputations' = [reputations EXCEPT ![n] = r.row]
           /\ audit_histories' = [audit_histories EXCEPT ![n] = r.history]
           /\ last' = Call("Update", n, outcome, now, wall, r.err, r.changed, r.status)
    /\ UNCHANGED <<cfg, txs, calls, walk>>

\* a field of dbx.Reputation_Update_Fields left out of an update
NoFields ==
    [ VettedAt                    |-> Unset,
      TotalAuditCount             |-> Unset,
      AuditReputationAlpha        |-> Unset,
      AuditReputationBeta         |-> Unset,
      Disqualified                |-> Unset,
      UnknownAuditReputationAlpha |-> Unset,
      UnknownAuditReputationBeta  |-> Unset,
      UnknownAuditSuspended       |-> Unset,
      AuditSuccessCount           |-> Unset,
      Contained                   |-> Unset,
      OnlineScore                 |-> Unset,
      OfflineSuspended            |-> Unset,
      UnderReview                 |-> Unset ]

\* dbx.Reputation_X_Raw(v): NULL for a nil pointer, the value otherwise
Raw(v) == IF v = Nil THEN SetNull ELSE SetTo(v)

\* VettedAt is left out of the update fields
SetNodeStatusFieldsNoVettedAt(status) ==
    [ NoFields EXCEPT
        !.Contained             = SetTo(status.Contained),
        !.Disqualified          = Raw(status.Disqualified),
        !.UnknownAuditSuspended = Raw(status.UnknownAuditSuspended),
        !.OfflineSuspended      = Raw(status.OfflineSuspended) ]

\* the update fields SetNodeStatus builds from the status it is given
SetNodeStatusFields(status) ==
    [ NoFields EXCEPT
        !.Contained             = SetTo(status.Contained),
        !.Disqualified          = Raw(status.Disqualified),
        !.UnknownAuditSuspended = Raw(status.UnknownAuditSuspended),
        !.OfflineSuspended      = Raw(status.OfflineSuspended),
        !.VettedAt              = Raw(status.VettedAt) ]

\* reputations.SetNodeStatus(ctx, id, status): Update_Reputation_By_Id outside
\* any transaction; a node without a row is left without one
SetNodeStatus(n, status) ==
    /\ reputations' = [reputations EXCEPT ![n] =
            IF @.present THEN UpdateReputationById(@, SetNodeStatusFields(status)) ELSE @]
    /\ last' = Call("SetNodeStatus", n, "none", 0, 0, "", FALSE, status)
    /\ UNCHANGED <<audit_histories, cfg, txs, calls, walk>>

\* the get-or-insert and the one-field update shared by DisqualifyNode,
\* SuspendNodeUnknownAudit and UnsuspendNodeUnknownAudit
UpsertWith(row, updateFields) ==
    UpdateReputationById(IF row.present THEN row ELSE NewReputation, updateFields)

\* reputations.DisqualifyNode(ctx, nodeID); wall is time.Now()
DisqualifyNode(n, wall) ==
    /\ \E row \in {UpsertWith(reputations[n], [NoFields EXCEPT !.Disqualified = SetTo(wall)])} :
           /\ reputations' = [reputations EXCEPT ![n] = row]
           /\ last' = Call("DisqualifyNode", n, "none", wall, wall, "", FALSE,
                           ReputationStatus(row))
    /\ UNCHANGED <<audit_histories, cfg, txs, calls, walk>>

\* reputations.SuspendNodeUnknownAudit(ctx, nodeID, suspendedAt)
SuspendNodeUnknownAudit(n, suspendedAt) ==
    /\ \E row \in {UpsertWith(reputations[n],
                        [NoFields EXCEPT !.UnknownAuditSuspended = SetTo(suspendedAt)])} :
           /\ reputations' = [reputations EXCEPT ![n] = row]
           /\ last' = Call("SuspendNodeUnknownAudit", n, "none", suspendedAt, suspendedAt,
                           "", FALSE, ReputationStatus(row))
    /\ UNCHANGED <<audit_histories, cfg, txs, calls, walk>>

\* reputations.UnsuspendNodeUnknownAudit(ctx, nodeID)
UnsuspendNodeUnknownAudit(n) ==
    /\ \E row \in {UpsertWith(reputations[n],
                        [NoFields EXCEPT !.UnknownAuditSuspended = SetNull])} :
           /\ reputations' = [reputations EXCEPT ![n] = row]
           /\ last' = Call("UnsuspendNodeUnknownAudit", n, "none", 0, 0, "", FALSE,
                           ReputationStatus(row))
    /\ UNCHANGED <<audit_histories, cfg, txs, calls, walk>>

\* reputations.UpdateAuditHistory(ctx, nodeID, auditTime, online, config)
UpdateAuditHistory(n, auditTime, online) ==
    /\ \E r \in {updateAuditHistoryWithTx(audit_histories[n], auditTime, online,
                                          cfg.AuditHistory)} :
           /\ audit_histories' = [audit_histories EXCEPT ![n] = r.row]
           /\ last' = Call("UpdateAuditHistory", n, IF online THEN "Success" ELSE "Offline",
                           auditTime, auditTime, r.err, FALSE, ZeroStatus)
    /\ UNCHANGED <<reputations, cfg, txs, calls, walk>>

\* the statuses the callers of SetNodeStatus pass
Statuses(t) ==
    { ZeroStatus,
      [ZeroStatus EXCEPT !.Disqualified = t],
      [ Contained |-> TRUE, Disqualified |-> Nil, UnknownAuditSuspended |-> t,
        OfflineSuspended |-> t, VettedAt |-> t ] }

\* no call is started on a node that already counts k audits
Below(n, k) ==
    /\ reputations[n].TotalAuditCount < k
    /\ AuditsIn(audit_histories[n].History.Windows) < k

-----------------------------------------------------------------------------
(* Concurrent callers of Update.  Each call runs in a database transaction:   *)
(* it reads the rows as of its first statement and its writes are seen by     *)
(* the others when it commits.  The calls for one node carry distinct         *)
(* observation times.                                                         *)

\* a transaction level that lets a transaction overwrite what it has not read
ReadCommitted == "READ COMMITTED"

\* SET TRANSACTION ISOLATION LEVEL SERIALIZABLE
IsolationLevel == "SERIALIZABLE"

NoTx ==
    [ open     |-> FALSE,
      node     |-> "n1",
      outcome  |-> "Success",
      now      |-> 0,
      row      |-> NoReputation,
      history  |-> NoAuditHistory,
      conflict |-> FALSE ]

\* the transaction of caller c wrote rows another open transaction has read:
\* under SERIALIZABLE the database lets only one of the two commit
Conflicting(c, n) ==
    [ d \in Callers |->
        IF d # c /\ txs[d].open /\ txs[d].node = n
        THEN [txs[d] EXCEPT !.conflict = TRUE]
        ELSE IF d = c THEN NoTx ELSE txs[d] ]

\* the rows are read under the id of one node, whatever node the call is for
BeginFirstNode(c, n, outcome, now) ==
    /\ ~txs[c].open
    /\ calls.begun < MaxCalls
    /\ txs' = [txs EXCEPT ![c] =
            [ open |-> TRUE, node |-> n, outcome |-> outcome, now |-> now,
              row |-> reputations["n1"], history |-> audit_histories["n1"],
              conflict |-> FALSE ]]
    /\ calls' = [calls EXCEPT !.begun = @ + 1, !.times[n] = @ \cup {now}]
    /\ UNCHANGED <<reputations, audit_histories, cfg, last, walk>>

\* caller c enters Update: db.WithTx opens the transaction and the rows of
\* the node are read
Begin(c, n, outcome, now) ==
    /\ ~txs[c].open
    /\ calls.begun < MaxCalls
    /\ txs' = [txs EXCEPT ![c] =
            [ open |-> TRUE, node |-> n, outcome |-> outcome, now |-> now,
              row |-> reputations[n], history |-> audit_histories[n],
              conflict |-> FALSE ]]
    /\ calls' = [calls EXCEPT !.begun = @ + 1, !.times[n] = @ \cup {now}]
    /\ UNCHANGED <<reputations, audit_histories, cfg, last, walk>>

\* the audit_histories row written in a transaction stays when the commit is
\* refused
FinishKeepsHistory(c, wall) ==
    LET t == txs[c]
        n == t.node
    IN  /\ t.open
        /\ \E r \in {UpdateTx(t.row, t.history, t.outcome, cfg, t.now, wall)} :
             LET writes == r.err = "" /\ ~AlreadyDisqualified(t.row)
                 refused == writes /\ t.conflict /\ IsolationLevel = "SERIALIZABLE"
             IN  /\ reputations' = [reputations EXCEPT ![n] =
                                        IF writes /\ ~refused THEN r.row ELSE @]
                 /\ audit_histories' = [audit_histories EXCEPT ![n] =
                                        IF writes THEN r.history ELSE @]
                 /\ txs' = IF writes /\ ~refused
                           THEN Conflicting(c, n)
                           ELSE [txs EXCEPT ![c] = NoTx]
                 /\ calls' = [calls EXCEPT
                                !.overlapped = IF \E d \in Callers : d # c /\ txs[d].open /\ txs[d].node # n
                                               THEN @ + 1 ELSE @,
                                !.valid[n] = IF writes THEN @ + 1 ELSE @,
                                !.processed[n] = IF writes /\ ~refused THEN @ + 1 ELSE @]
                 /\ last' = IF refused
                            THEN Call("Update", n, t.outcome, t.now, wall,
                                      "could not serialize access", FALSE, ZeroStatus)
                            ELSE Call("Update", n, t.outcome, t.now, wall,
                                      r.err, r.changed, r.status)
        /\ UNCHANGED <<cfg, walk>>

\* the transaction of caller c runs to its end: it is rolled back on an error
\* of its body, refused by the database when it conflicts with a transaction
\* that committed meanwhile, and committed otherwise
Finish(c, wall) ==
    LET t == txs[c]
        n == t.node
    IN  /\ t.open
        /\ \E r \in {UpdateTx(t.row, t.history, t.outcome, cfg, t.now, wall)} :
             LET writes == r.err = "" /\ ~AlreadyDisqualified(t.row)
                 refused == writes /\ t.conflict /\ IsolationLevel = "SERIALIZABLE"
             IN  /\ reputations' = [reputations EXCEPT ![n] =
                                        IF writes /\ ~refused THEN r.row ELSE @]
                 /\ audit_histories' = [audit_histories EXCEPT ![n] =
                                        IF writes /\ ~refused THEN r.history ELSE @]
                 /\ txs' = IF writes /\ ~refused
                           THEN Conflicting(c, n)
                           ELSE [txs EXCEPT ![c] = NoTx]
                 /\ calls' = [calls EXCEPT
                                !.overlapped = IF \E d \in Callers : d # c /\ txs[d].open /\ txs[d].node # n
                                               THEN @ + 1 ELSE @,
                                !.valid[n] = IF writes THEN @ + 1 ELSE @,
                                !.processed[n] = IF writes /\ ~refused THEN @ + 1 ELSE @]
                 /\ last' = IF refused
                            THEN Call("Update", n, t.outcome, t.now, wall,
                                      "could not serialize access", FALSE, ZeroStatus)
                            ELSE Call("Update", n, t.outcome, t.now, wall,
                                      r.err, r.changed, r.status)
        /\ UNCHANGED <<cfg, walk>>

NextTx ==
    \/ \E c \in Callers, n \in Nodes, outcome \in AuditOutcomes :
        \E now \in TxTimes \ calls.times[n] :
            Begin(c, n, outcome, now)
    \/ \E c \in Callers :
        \E wall \in WallTimes(txs[c].now, ReadsClock(txs[c].row, txs[c].outcome, cfg)) :
            Finish(c, wall)

-----------------------------------------------------------------------------
(* FileWalker.WalkSatellitePiecesToTrash (package pieces) *)

Pieces == {"p1", "p2", "p3"}

\* the blobs in the namespace of the satellite, in the order WalkNamespace
\* meets them: two pieces in V1 storage, a stray file whose name decodes as a
\* blob key but is not a piece, and a piece in V0 storage
Blobs ==
    << [id |-> "p1", version |-> "V1", piece |-> TRUE],
       [id |-> "stray", version |-> "V1", piece |-> FALSE],
       [id |-> "p2", version |-> "V1", piece |-> TRUE],
       [id |-> "p3", version |-> "V0", piece |-> TRUE] >>

\* the bloom filters a call can be given: nil, or a filter that answers
\* Contains with TRUE for the pieces of `contains`
Filters ==
    {[nil |-> TRUE, contains |-> {}]} \cup {[nil |-> FALSE, contains |-> c] : c \in SUBSET Pieces}

\* what access.ModTime(ctx) can return: a time, an error that says the file
\* does not exist, or another error
NoStat == [err |-> "none", mTime |-> 0]

ModTimes ==
    {[err |-> "", mTime |-> t] : t \in Times}
        \cup {[err |-> "notexist", mTime |-> 0], [err |-> "error", mTime |-> 0]}

CreatedBefores == {1, 2}

\* no call of WalkSatellitePiecesToTrash
NoWalk ==
    [ phase         |-> "none",
      filter        |-> [nil |-> TRUE, contains |-> {}],
      createdBefore |-> 0,
      v0PieceInfo   |-> FALSE,
      ctxDone       |-> FALSE,
      pos           |-> 1,
      pieceIDs      |-> <<>>,
      piecesCount   |-> 0,
      piecesSkipped |-> 0,
      err           |-> "",
      seen          |-> [p \in Pieces |-> [visited |-> FALSE, stat |-> NoStat]] ]

\* the blobs WalkSatellitePieces meets: every blob of the namespace, and after
\* them the pieces of V0 storage when the walker has a V0PieceInfoDB
WalkOrder(v0PieceInfo) ==
    [i \in 1..Len(Blobs) |-> [pass |-> 1, blob |-> Blobs[i]]]
        \o (IF v0PieceInfo
            THEN SelectSeq([i \in 1..Len(Blobs) |-> [pass |-> 2, blob |-> Blobs[i]]],
                           LAMBDA e : e.blob.version = "V0" /\ e.blob.piece)
            ELSE <<>>)

\* WalkSatellitePieces calls fn for this blob
CallsFn(e) ==
    IF e.pass = 1 THEN e.blob.version = "V1" /\ e.blob.piece
    ELSE TRUE

\* fn returns and the walk moves on, or stops with the error fn returned
Advance(w, err) ==
    IF err # "" \/ w.pos + 1 > Len(WalkOrder(w.v0PieceInfo))
    THEN [w EXCEPT !.pos = @ + 1, !.err = err, !.phase = "returned"]
    ELSE [w EXCEPT !.pos = @ + 1]

\* the mtime is compared with <=
ToTrashAtOrBefore(w, pieceID, stat) ==
    LET counted == [w EXCEPT !.piecesCount = @ + 1]
    IN  IF pieceID \in w.filter.contains
        THEN Advance([counted EXCEPT !.seen[pieceID] = [visited |-> TRUE, stat |-> NoStat]], "")
        ELSE IF stat.err = "notexist"
        THEN Advance([counted EXCEPT !.seen[pieceID] = [visited |-> TRUE, stat |-> stat]], "")
        ELSE IF stat.err # ""
        THEN Advance([counted EXCEPT !.seen[pieceID] = [visited |-> TRUE, stat |-> stat],
                                     !.piecesSkipped = @ + 1], "")
        ELSE IF ~(stat.mTime <= w.createdBefore)
        THEN Advance([counted EXCEPT !.seen[pieceID] = [visited |-> TRUE, stat |-> stat]], "")
        ELSE Advance([counted EXCEPT !.seen[pieceID] = [visited |-> TRUE, stat |-> stat],
                                     !.pieceIDs = Append(@, pieceID)],
                     IF w.ctxDone THEN "context canceled" ELSE "")

\* the function WalkSatellitePiecesToTrash hands to WalkSatellitePieces, called
\* with the access to one piece; stat is what access.ModTime returns
ToTrash(w, pieceID, stat) ==
    LET counted == [w EXCEPT !.piecesCount = @ + 1]
    IN  IF pieceID \in w.filter.contains
        THEN Advance([counted EXCEPT !.seen[pieceID] = [visited |-> TRUE, stat |-> NoStat]], "")
        ELSE IF stat.err = "notexist"
        THEN Advance([counted EXCEPT !.seen[pieceID] = [visited |-> TRUE, stat |-> stat]], "")
        ELSE IF stat.err # ""
        THEN Advance([counted EXCEPT !.seen[pieceID] = [visited |-> TRUE, stat |-> stat],
                                     !.piecesSkipped = @ + 1], "")
        ELSE IF ~(stat.mTime < w.createdBefore)
        THEN Advance([counted EXCEPT !.seen[pieceID] = [visited |-> TRUE, stat |-> stat]], "")
        ELSE Advance([counted EXCEPT !.seen[pieceID] = [visited |-> TRUE, stat |-> stat],
                                     !.pieceIDs = Append(@, pieceID)],
                     IF w.ctxDone THEN "context canceled" ELSE "")

\* WalkSatellitePiecesToTrash is called: with a nil filter it returns at once
StartWalk ==
    /\ walk.phase = "called"
    /\ walk' = [walk EXCEPT !.phase = IF walk.filter.nil THEN "returned" ELSE "walking"]
    /\ UNCHANGED <<reputations, audit_histories, cfg, last, txs, calls>>

\* WalkSatellitePieces passes over a blob without calling fn: a piece of V0
\* storage met in the namespace, or a file that is not a piece
SkipBlob ==
    /\ walk.phase = "walking"
    /\ ~CallsFn(WalkOrder(walk.v0PieceInfo)[walk.pos])
    /\ walk' = Advance(walk, "")
    /\ UNCHANGED <<reputations, audit_histories, cfg, last, txs, calls>>

\* WalkSatellitePieces calls fn for the next piece
VisitPiece(stat) ==
    /\ walk.phase = "walking"
    /\ CallsFn(WalkOrder(walk.v0PieceInfo)[walk.pos])
    /\ stat.err = "none" <=> WalkOrder(walk.v0PieceInfo)[walk.pos].blob.id \in walk.filter.contains
    /\ walk' = ToTrash(walk, WalkOrder(walk.v0PieceInfo)[walk.pos].blob.id, stat)
    /\ UNCHANGED <<reputations, audit_histories, cfg, last, txs, calls>>

\* the caller cancels ctx while the walk is under way
CancelWalk ==
    /\ walk.phase = "walking"
    /\ ~walk.ctxDone
    /\ walk' = [walk EXCEPT !.ctxDone = TRUE]
    /\ UNCHANGED <<reputations, audit_histories, cfg, last, txs, calls>>

\* an empty database, no call made
EmptyStore ==
    /\ reputations = [n \in Nodes |-> NoReputation]
    /\ audit_histories = [n \in Nodes |-> NoAuditHistory]
    /\ last = NoCall
    /\ txs = [c \in Callers |-> NoTx]
    /\ calls = [ begun     |-> 0,
                 overlapped |-> 0,
                 times     |-> [n \in Nodes |-> {}],
                 valid     |-> [n \in Nodes |-> 0],
                 processed |-> [n \in Nodes |-> 0] ]

\* an empty database and no walk of the blob store
Empty == EmptyStore /\ walk = NoWalk

Init == Empty /\ cfg \in Configs

InitHistory == Empty /\ cfg \in HistoryConfigs

\* only audits: no administrative call
NextAudit ==
    \E n \in SeqNodes, outcome \in AuditOutcomes, now \in Times :
        \E wall \in WallTimes(now, ReadsClock(reputations[n], outcome, cfg)) :
            Below(n, MaxAudits) /\ Update(n, outcome, now, wall)

SpecAudit == Init /\ [][NextAudit]_vars

\* every exposed operation
Next ==
    \/ \E n \in SeqNodes, outcome \in AuditOutcomes, now \in Times :
        \E wall \in WallTimes(now, ReadsClock(reputations[n], outcome, cfg)) :
            Below(n, MaxMixedAudits) /\ Update(n, outcome, now, wall)
    \/ \E n \in SeqNodes, t \in AdminTimes : \E status \in Statuses(t) : SetNodeStatus(n, status)
    \/ \E n \in SeqNodes, wall \in AdminTimes : DisqualifyNode(n, wall)
    \/ \E n \in SeqNodes, suspendedAt \in AdminTimes : SuspendNodeUnknownAudit(n, suspendedAt)
    \/ \E n \in SeqNodes : UnsuspendNodeUnknownAudit(n)

Spec == Init /\ [][Next]_vars

\* only the audit history, updated on its own
NextHistory ==
    \E n \in SeqNodes, auditTime \in Times, online \in BOOLEAN :
        Below(n, MaxAudits) /\ UpdateAuditHistory(n, auditTime, online)

SpecHistory == InitHistory /\ [][NextHistory]_vars

SpecTx == Init /\ [][NextTx]_vars

\* the suspension round trip: a node is fed unknown audits until it is
\* suspended for them, and successes from then on
FeedUnknown(n, now) ==
    /\ reputations[n].UnknownAuditSuspended = Nil
    /\ reputations[n].AuditSuccessCount = 0
    /\ Update(n, "Unknown", now, now)

FeedSuccess(n, now) ==
    /\ reputations[n].UnknownAuditSuspended # Nil \/ reputations[n].AuditSuccessCount > 0
    /\ Update(n, "Success", now, now)

NextRoundTrip ==
    \/ \E n \in Nodes, now \in Times : Below(n, MaxAudits) /\ FeedUnknown(n, now)
    \/ \E n \in Nodes, now \in Times : Below(n, MaxAudits) /\ FeedSuccess(n, now)

SpecRoundTrip == Init /\ [][NextRoundTrip]_vars

\* the satellite goes on with offline suspension switched off, or on again:
\* later requests carry the other setting of OfflineSuspensionEnabled
Reconfigure ==
    /\ cfg' = [cfg EXCEPT !.AuditHistory.OfflineSuspensionEnabled = ~@]
    /\ last' = [NoCall EXCEPT !.op = "Reconfigure"]
    /\ UNCHANGED <<reputations, audit_histories, txs, calls, walk>>

InitReconfigure == Empty /\ cfg = ConfigStrict

NextReconfigure ==
    \/ \E n \in SeqNodes, outcome \in AuditOutcomes, now \in Times :
        \E wall \in WallTimes(now, ReadsClock(reputations[n], outcome, cfg)) :
            Below(n, MaxAudits) /\ Update(n, outcome, now, wall)
    \/ Reconfigure

SpecReconfigure == InitReconfigure /\ [][NextReconfigure]_vars

\* audits under the configuration whose tracking period spans two windows
InitWide == Empty /\ cfg = ConfigWide

SpecAuditWide == InitWide /\ [][NextAudit]_vars

\* a call of WalkSatellitePiecesToTrash with any filter, createdBefore and
\* walker, on an empty reputation store
InitWalk ==
    /\ EmptyStore
    /\ cfg = ConfigStrict
    /\ \E filter \in Filters, createdBefore \in CreatedBefores, v0PieceInfo \in BOOLEAN :
          walk = [ NoWalk EXCEPT !.phase = "called",
                                 !.filter = filter,
                                 !.createdBefore = createdBefore,
                                 !.v0PieceInfo = v0PieceInfo ]

NextWalk ==
    \/ StartWalk
    \/ SkipBlob
    \/ \E stat \in ModTimes \cup {NoStat} : VisitPiece(stat)
    \/ CancelWalk

SpecWalk == InitWalk /\ [][NextWalk]_vars

-----------------------------------------------------------------------------
(* Properties *)

\* the rows of the node of the last call, as they are now
Post == reputations[last.node]

PostHistory == audit_histories[last.node]

\* the last call was an Update that recorded its audit
Processed ==
    /\ last.op = "Update"
    /\ last.err = ""
    /\ last.pre.Disqualified = Nil

\* C1: an Update on a node whose disqualified is set, with any outcome and any
\* observation time, leaves the node's reputation row and its audit history
\* row as they were before the call.
C1_DisqualifiedFrozen ==
    (last.op = "Update" /\ last.pre.Disqualified # Nil)
        => (Post = last.pre /\ PostHistory = last.preHistory)

\* an Update ran on a disqualified node that had audits and a history
C1_Witness ==
    /\ last.op = "Update"
    /\ last.pre.Disqualified # Nil
    /\ last.pre.TotalAuditCount > 0
    /\ last.preHistory.present
    /\ last.outcome = "Failure"

\* C2: an Update on a node whose disqualified is already set returns the
\* node's unchanged status together with changed = false, for every outcome.
C2_DisqualifiedUnchangedFlag ==
    (last.op = "Update" /\ last.pre.Disqualified # Nil)
        => (last.changed = FALSE /\ last.status = ReputationStatus(last.pre))

\* every call that was started has returned
AllReturned == \A c \in Callers : ~txs[c].open

StaleObservation ==
    LET windows == last.preHistory.History.Windows
    IN  /\ last.op = "Update"
        /\ last.preHistory.present
        /\ windows # <<>>
        /\ Truncate(last.now, cfg.AuditHistory.WindowSize) < windows[Len(windows)].WindowStart

\* C4: an Update on a node that is not disqualified, with an observation time
\* that truncates to a window start before the start of the node's last
\* window, fails with "window already passed" and leaves the reputation row
\* and the audit history row as they were.
C4_StaleRejected ==
    (StaleObservation /\ last.pre.Disqualified = Nil)
        => /\ last.err = "window already passed"
           /\ Post = last.pre
           /\ PostHistory = last.preHistory

\* a stale observation on a node with audits that is not disqualified, the
\* observation being older than the whole tracking period
C4_Witness ==
    /\ StaleObservation
    /\ last.pre.Disqualified = Nil
    /\ last.pre.TotalAuditCount > 0
    /\ last.err = "window already passed"
    /\ last.now + cfg.AuditHistory.TrackingPeriod
           < last.preHistory.History.Windows[1].WindowStart

\* C4 as stated: every stale observation fails.
C4_StaleAlwaysFails ==
    StaleObservation
        => /\ last.err = "window already passed"
           /\ Post = last.pre
           /\ PostHistory = last.preHistory

\* C5: over any sequence of Update calls on a node, VettedAt is set in the
\* call that takes TotalAuditCount from below AuditsRequiredForVetting to it,
\* to the observation time of that call, in no call before it, and a set
\* VettedAt is the same after every later call.
C5_VettedExactlyOnce ==
    /\ \A n \in Nodes :
          reputations[n].VettedAt # Nil
              <=> reputations[n].TotalAuditCount >= cfg.AuditsRequiredForVetting
    /\ last.op = "Update" =>
          /\ last.pre.VettedAt # Nil => Post.VettedAt = last.pre.VettedAt
          /\ (last.pre.VettedAt = Nil /\ Post.VettedAt # Nil) =>
                /\ last.pre.TotalAuditCount = cfg.AuditsRequiredForVetting - 1
                /\ Post.TotalAuditCount = cfg.AuditsRequiredForVetting
                /\ Post.VettedAt = last.now

\* a node vetted in an earlier call went through a later call, observed at
\* another time, that counted one more audit
C5_Witness ==
    /\ Processed
    /\ last.pre.VettedAt # Nil
    /\ last.now # last.pre.VettedAt
    /\ Post.TotalAuditCount = last.pre.TotalAuditCount + 1
    /\ Post.TotalAuditCount > cfg.AuditsRequiredForVetting

\* C6: a set VettedAt is neither cleared nor replaced by Update,
\* DisqualifyNode, SuspendNodeUnknownAudit and UnsuspendNodeUnknownAudit;
\* SetNodeStatus writes the VettedAt of the status it is given, null included.
C6_VettedAtKept ==
    /\ (last.op \in {"Update", "DisqualifyNode", "SuspendNodeUnknownAudit",
                     "UnsuspendNodeUnknownAudit"} /\ last.pre.VettedAt # Nil)
            => Post.VettedAt = last.pre.VettedAt
    /\ (last.op = "SetNodeStatus" /\ last.pre.present)
            => Post.VettedAt = last.status.VettedAt

\* a vetted node went through an Update observed at another time that left
\* it with the audits vetting requires
C6_Witness ==
    /\ Processed
    /\ last.pre.VettedAt # Nil
    /\ last.now # last.pre.VettedAt
    /\ Post.TotalAuditCount >= cfg.AuditsRequiredForVetting

\* C6 as stated: no exposed operation clears or replaces a set VettedAt.
C6_VettedAtImmutable ==
    (last.op # "none" /\ last.pre.VettedAt # Nil)
        => Post.VettedAt = last.pre.VettedAt

\* C7: once Disqualified is set on a node's reputation row, no exposed
\* operation changes any field of the row: Disqualified does not return to
\* null and its timestamp is not replaced.
C7_DisqualifiedTerminal ==
    (last.op # "none" /\ last.pre.Disqualified # Nil) => Post = last.pre

\* the sum of OnlineCount / TotalCount over a sequence of windows, from its head
RECURSIVE SumOfRatios(_)
SumOfRatios(windows) ==
    IF windows = <<>> THEN <<0, 1>>
    ELSE RAdd(<<windows[1].OnlineCount, windows[1].TotalCount>>, SumOfRatios(Tail(windows)))

\* the score a history should carry: 1 with one window, otherwise the mean of
\* OnlineCount / TotalCount over the windows before the last
ReferenceScore(windows) ==
    IF Len(windows) = 1 THEN <<1, 1>>
    ELSE LET closed == SubSeq(windows, 1, Len(windows) - 1)
             sum    == SumOfRatios(closed)
         IN  <<sum[1], sum[2] * Len(closed)>>

\* two fractions denote the same number
SameNumber(a, b) == a[1] * b[2] = b[1] * a[2]

\* C8: every audit history written by successful updates carries as Score the
\* reference value: 1 with exactly one window, otherwise the mean of
\* OnlineCount / TotalCount over all windows but the last; the counts of the
\* last window play no part.
C8_ScoreIsReference ==
    \A n \in Nodes :
        audit_histories[n].present =>
            /\ audit_histories[n].History.Windows # <<>>
            /\ SameNumber(audit_histories[n].History.Score,
                          ReferenceScore(audit_histories[n].History.Windows))

\* three windows, a score that is neither 0 nor 1, and a last update that
\* added to the last window without adding or removing a window
C8_Witness ==
    /\ last.op = "UpdateAuditHistory"
    /\ last.err = ""
    /\ Len(PostHistory.History.Windows) = 3
    /\ Len(last.preHistory.History.Windows) = 3
    /\ PostHistory.History.Windows[3].TotalCount = 2
    /\ PostHistory.History.Windows[3].OnlineCount = 0
    /\ PostHistory.History.Score = <<1, 2>>

\* the unknown-audit reputation of a row is at or below the threshold
UnknownRepAtMostDQ(row) ==
    ReputationAtMost(row.UnknownAuditReputationAlpha, row.UnknownAuditReputationBeta,
                     cfg.AuditDQ)

\* C9: a node fed unknown audits until UnknownAuditSuspended is set and
\* successes from then on is never disqualified; it is suspended exactly
\* while its unknown-audit reputation is at or below AuditDQ, so the success
\* that takes the reputation above AuditDQ clears UnknownAuditSuspended, and
\* it stays clear under the successes that follow.
C9_SuspensionRoundTrip ==
    \A n \in Nodes :
        /\ reputations[n].Disqualified = Nil
        /\ reputations[n].present =>
              (reputations[n].UnknownAuditSuspended # Nil <=> UnknownRepAtMostDQ(reputations[n]))

\* a success took a suspended node's unknown-audit reputation above AuditDQ
C9_Witness ==
    /\ Processed
    /\ last.outcome = "Success"
    /\ last.pre.UnknownAuditSuspended # Nil
    /\ UnknownRepAtMostDQ(last.pre)
    /\ ~UnknownRepAtMostDQ(Post)
    /\ Post.UnknownAuditSuspended = Nil
    /\ Post.Disqualified = Nil

\* the last call was an Update with an unknown audit on a node suspended for
\* unknown audits, run when the clock showed more than SuspensionGracePeriod
\* past the suspension, with SuspensionDQEnabled
GraceExpired ==
    /\ last.op = "Update"
    /\ last.outcome = "Unknown"
    /\ last.pre.UnknownAuditSuspended # Nil
    /\ last.wall - last.pre.UnknownAuditSuspended > cfg.SuspensionGracePeriod
    /\ cfg.SuspensionDQEnabled

LastNode == IF last.pre.present THEN last.pre ELSE NewReputation

\* what updateAuditHistoryWithTx gave the last Update
LastAuditHistory ==
    updateAuditHistoryWithTx(last.preHistory, last.now, last.outcome # "Offline",
                             cfg.AuditHistory)

\* the offline rules disqualified the node in the last Update
LastOfflineDisqualified ==
    OfflineUpdate(LastNode, cfg, LastAuditHistory.res, last.now).disqualified

\* the last Update suspended for unknown audits a node that was not suspended
NewlySuspended ==
    /\ Processed
    /\ last.pre.UnknownAuditSuspended = Nil
    /\ UnknownRepAtMostDQ(Post)

\* C11: an Update that suspends for unknown audits a node that was not
\* suspended before it leaves UnknownAuditSuspended at the observation time
\* and disqualifies the node only through the audit reputation or the offline
\* rules, never through the grace period, whatever SuspensionGracePeriod is.
C11_NoGraceOnNewSuspension ==
    NewlySuspended =>
        /\ Post.UnknownAuditSuspended = last.now
        /\ Post.Disqualified # Nil =>
              \/ AuditDisqualified(Post.AuditReputationAlpha, Post.AuditReputationBeta, cfg)
              \/ LastOfflineDisqualified

\* a node newly suspended by an unknown audit observed past a grace period
\* of zero, with disqualification on, and not disqualified
C11_Witness ==
    /\ NewlySuspended
    /\ last.outcome = "Unknown"
    /\ cfg.SuspensionGracePeriod = 0
    /\ cfg.SuspensionDQEnabled
    /\ last.now > 0
    /\ Post.UnknownAuditSuspended = last.now
    /\ Post.Disqualified = Nil

\* in the last Update the online score was below OfflineThreshold with a full
\* tracking period
LastScoreBelow ==
    /\ RLt(LastAuditHistory.res.NewScore, cfg.AuditHistory.OfflineThreshold)
    /\ LastAuditHistory.res.TrackingPeriodFull

\* the last Update was observed after UnderReview + GracePeriod + TrackingPeriod
ReviewOver ==
    /\ last.pre.UnderReview # Nil
    /\ last.now > last.pre.UnderReview + cfg.AuditHistory.GracePeriod
                      + cfg.AuditHistory.TrackingPeriod

\* C12: with offline suspension on, an Update whose online score is below
\* OfflineThreshold with a full tracking period leaves UnderReview and
\* OfflineSuspended set, both to the observation time when the node was not
\* under review; with OfflineDQEnabled, such an Update observed after
\* UnderReview + GracePeriod + TrackingPeriod disqualifies the node.
C12_OfflineReviewCycle ==
    (Processed /\ cfg.AuditHistory.OfflineSuspensionEnabled /\ LastScoreBelow) =>
        /\ Post.UnderReview # Nil
        /\ Post.OfflineSuspended # Nil
        /\ last.pre.UnderReview = Nil =>
              (Post.UnderReview = last.now /\ Post.OfflineSuspended = last.now)
        /\ (ReviewOver /\ cfg.AuditHistory.OfflineDQEnabled) => Post.Disqualified = last.now

\* a node put under review by an earlier audit is disqualified for being
\* offline, its audit reputation being above AuditDQ
C12_Witness ==
    /\ Processed
    /\ last.outcome = "Offline"
    /\ LastScoreBelow
    /\ ReviewOver
    /\ last.pre.OfflineSuspended = last.pre.UnderReview
    /\ Post.Disqualified = last.now
    /\ ~AuditDisqualified(Post.AuditReputationAlpha, Post.AuditReputationBeta, cfg)

\* one of the five status fields of the row written differs from the row the
\* last Update read or inserted
StatusFieldsDiffer ==
    \/ Post.Contained # LastNode.Contained
    \/ Post.Disqualified # LastNode.Disqualified
    \/ Post.UnknownAuditSuspended # LastNode.UnknownAuditSuspended
    \/ Post.OfflineSuspended # LastNode.OfflineSuspended
    \/ Post.VettedAt # LastNode.VettedAt

\* C13: every Update that returns no error returns changed = true exactly
\* when Contained, Disqualified, UnknownAuditSuspended, OfflineSuspended or
\* VettedAt of the row after the call differs from the row read or inserted at
\* its start.
C13_ChangedIffStatusDiffers ==
    (last.op = "Update" /\ last.err = "") => (last.changed <=> StatusFieldsDiffer)

\* a call returns in this step
Returns == \E c \in Callers : txs[c].open /\ ~txs'[c].open

\* C14: a call of Update changes no row of another node, and a call that
\* returns without error, whatever calls on other nodes ran beside it, leaves
\* its node's rows as the same call run alone on the rows found at its return
\* leaves them: calls on distinct nodes end in the state their serial
\* execution in either order ends in.
C14_DistinctNodesIndependent ==
    [][ /\ \A n \in Nodes :
              (reputations'[n] # reputations[n] \/ audit_histories'[n] # audit_histories[n])
                  => (Returns /\ last'.op = "Update" /\ last'.node = n)
        /\ (Returns /\ last'.err = "") =>
              \E r \in { UpdateTx(reputations[last'.node], audit_histories[last'.node],
                                  last'.outcome, cfg, last'.now, last'.wall) } :
                  /\ r.err = ""
                  /\ reputations'[last'.node] = r.row
                  /\ audit_histories'[last'.node] = r.history
                  /\ last'.changed = r.changed
                  /\ last'.status = r.status
      ]_vars

\* two calls on distinct nodes ran side by side and both recorded their audit
C14_Witness ==
    /\ AllReturned
    /\ calls.overlapped >= 1
    /\ \A n \in Nodes : calls.processed[n] = 1 /\ reputations[n].TotalAuditCount = 1
    /\ reputations["n1"] # reputations["n2"]

\* C15 as stated: a node has a reputations row exactly when it has an
\* audit_histories row
C15_RecordsTogether ==
    \A n \in Nodes : reputations[n].present <=> audit_histories[n].present

\* C15: an Update that records its audit leaves the node with a reputations
\* row and an audit_histories row, and no call deletes a row it found.
C15_RecordsAfterAudit ==
    /\ Processed => (Post.present /\ PostHistory.present)
    /\ (last.op # "none" /\ last.pre.present) => Post.present
    /\ (last.op # "none" /\ last.preHistory.present) => PostHistory.present

\* the first Update of a node creates both rows
C15_Witness ==
    /\ Processed
    /\ ~last.pre.present
    /\ ~last.preHistory.present
    /\ Post.present
    /\ PostHistory.present

\* the windows of node n's audit history, <<>> without a row
WindowsOf(n) ==
    IF audit_histories[n].present THEN audit_histories[n].History.Windows ELSE <<>>

\* the last call was a recordAuditHistory that returned the error / no error
ObservationFailed == last.op \in {"Update", "UpdateAuditHistory"} /\ last.err = "window already passed"

ObservationRecorded ==
    \/ last.op = "UpdateAuditHistory" /\ last.err = ""
    \/ Processed

\* C16: in every audit history the window starts are strictly ascending and
\* each is a multiple of the window size, whatever calls succeeded or failed
\* before.
C16_WindowsAscendingTruncated ==
    \A n \in Nodes :
        /\ \A i \in 1..Len(WindowsOf(n)) :
              WindowsOf(n)[i].WindowStart % cfg.AuditHistory.WindowSize = 0
        /\ \A i \in 1..(Len(WindowsOf(n)) - 1) :
              WindowsOf(n)[i].WindowStart < WindowsOf(n)[i + 1].WindowStart

\* with a window size of 2, a history of two windows, both created by audits
\* at times that are not window starts, after a call that failed
C16_Witness ==
    /\ cfg.AuditHistory.WindowSize = 2
    /\ ObservationFailed
    /\ last.now = 1
    /\ Len(WindowsOf(last.node)) = 2
    /\ WindowsOf(last.node)[1].WindowStart = 0
    /\ WindowsOf(last.node)[2].WindowStart = 2

\* C17 as stated: after a recorded observation at time now every window starts
\* at or after now - trackingPeriod
C17_RetainedSinceNow ==
    ObservationRecorded =>
        \A i \in 1..Len(WindowsOf(last.node)) :
            WindowsOf(last.node)[i].WindowStart >= last.now - cfg.AuditHistory.TrackingPeriod

\* C17: after a recorded observation at time now every window starts at or
\* after the start of now's window minus the tracking period.
C17_RetainedSinceWindowStart ==
    ObservationRecorded =>
        \A i \in 1..Len(WindowsOf(last.node)) :
            WindowsOf(last.node)[i].WindowStart >=
                Truncate(last.now, cfg.AuditHistory.WindowSize) - cfg.AuditHistory.TrackingPeriod

\* a recorded observation dropped the oldest window and kept a later one
C17_Witness ==
    /\ ObservationRecorded
    /\ last.preHistory.present
    /\ Len(last.preHistory.History.Windows) >= 2
    /\ Len(WindowsOf(last.node)) >= 2
    /\ last.preHistory.History.Windows[1].WindowStart < WindowsOf(last.node)[1].WindowStart
    /\ last.preHistory.History.Windows[2] = WindowsOf(last.node)[1]

\* C18 as stated: consecutive windows start exactly one window size apart
C18_WindowsContiguous ==
    \A n \in Nodes : \A i \in 1..(Len(WindowsOf(n)) - 1) :
        WindowsOf(n)[i + 1].WindowStart - WindowsOf(n)[i].WindowStart
            = cfg.AuditHistory.WindowSize

\* C18: consecutive windows start a positive whole number of window sizes
\* apart, and every window holds at least one audit: a window exists only for
\* a period in which an audit was recorded.
C18_WindowsLazilyCreated ==
    \A n \in Nodes :
        /\ \A i \in 1..(Len(WindowsOf(n)) - 1) :
              \E k \in 1..(MaxTime + 1) :
                  WindowsOf(n)[i + 1].WindowStart - WindowsOf(n)[i].WindowStart
                      = k * cfg.AuditHistory.WindowSize
        /\ \A i \in 1..Len(WindowsOf(n)) :
              /\ WindowsOf(n)[i].TotalCount >= 1
              /\ WindowsOf(n)[i].OnlineCount \in 0..WindowsOf(n)[i].TotalCount

\* a history with a gap: two consecutive windows more than one window size
\* apart
C18_Witness ==
    /\ ObservationRecorded
    /\ \E i \in 1..(Len(WindowsOf(last.node)) - 1) :
          WindowsOf(last.node)[i + 1].WindowStart - WindowsOf(last.node)[i].WindowStart
              > cfg.AuditHistory.WindowSize

\* x > 0
RPositive(x) == x[1] > 0 /\ x[2] > 0

AuditRep(r) == RDiv(r.AuditReputationAlpha, RAdd(r.AuditReputationAlpha, r.AuditReputationBeta))

\* C20: an Update with outcome Success leaves an audit reputation
\* alpha / (alpha + beta) that is at least the one it found; so it is along
\* every run of Success outcomes.
C20_MonotoneUnderSuccess ==
    (Processed /\ last.outcome = "Success") => RLeq(AuditRep(LastNode), AuditRep(Post))

\* the third Success of a node that got nothing but Success, with lambda
\* below 1, raised the audit reputation
C20_Witness ==
    /\ Processed
    /\ last.outcome = "Success"
    /\ RLt(cfg.AuditLambda, <<1, 1>>)
    /\ Post.TotalAuditCount = 3
    /\ Post.AuditSuccessCount = 3
    /\ RLt(AuditRep(LastNode), AuditRep(Post))

\* the last call was an Update that returned an error
UpdateFailed == last.op = "Update" /\ last.err # ""

C21_StaleWitness ==
    /\ UpdateFailed
    /\ last.err = "window already passed"
    /\ Post = last.pre
    /\ PostHistory = last.preHistory

\* C22: SetNodeStatus leaves a row that is the row it found with the five
\* status fields set to the given values and every other column as it was;
\* it leaves the audit_histories row alone and creates no row for a node
\* without one.
C22_SetNodeStatusFrame ==
    last.op = "SetNodeStatus" =>
        /\ PostHistory = last.preHistory
        /\ ~last.pre.present => Post = last.pre
        /\ last.pre.present =>
              Post = [ last.pre EXCEPT
                         !.Contained             = last.status.Contained,
                         !.Disqualified          = last.status.Disqualified,
                         !.UnknownAuditSuspended = last.status.UnknownAuditSuspended,
                         !.OfflineSuspended      = last.status.OfflineSuspended,
                         !.VettedAt              = last.status.VettedAt ]

\* SetNodeStatus changed all five status fields of a node that had been audited
C22_Witness ==
    /\ last.op = "SetNodeStatus"
    /\ last.pre.present
    /\ last.pre.TotalAuditCount >= 1
    /\ PostHistory.present
    /\ Post.Contained # last.pre.Contained
    /\ Post.Disqualified # last.pre.Disqualified
    /\ Post.UnknownAuditSuspended # last.pre.UnknownAuditSuspended
    /\ Post.OfflineSuspended # last.pre.OfflineSuspended
    /\ Post.VettedAt # last.pre.VettedAt

\* SetNodeStatus on a node without a row
C22_NoRowWitness ==
    /\ last.op = "SetNodeStatus"
    /\ ~last.pre.present
    /\ ~Post.present
    /\ last.status.Disqualified # Nil

\* the pieces WalkSatellitePiecesToTrash has put in pieceIDs
Returned == {walk.pieceIDs[i] : i \in 1..Len(walk.pieceIDs)}

\* C23: a piece is in the returned pieceIDs only if the filter is not nil and
\* does not contain it and its mtime was read and is strictly before
\* createdBefore; with a nil filter the call returns no piece and has visited
\* none.
C23_TrashOnlyOldUnfiltered ==
    /\ \A p \in Returned :
          /\ ~walk.filter.nil
          /\ p \notin walk.filter.contains
          /\ walk.seen[p].visited
          /\ walk.seen[p].stat.err = ""
          /\ walk.seen[p].stat.mTime < walk.createdBefore
    /\ walk.filter.nil =>
          /\ walk.pieceIDs = <<>>
          /\ walk.piecesCount = 0
          /\ \A p \in Pieces : ~walk.seen[p].visited

\* a walk that returned one piece and visited one piece of each other kind:
\* in the filter, and with an mtime equal to createdBefore
C23_Witness ==
    /\ walk.phase = "returned"
    /\ walk.err = ""
    /\ walk.piecesCount = 3
    /\ Len(walk.pieceIDs) = 1
    /\ \E p \in Pieces : walk.seen[p].visited /\ p \in walk.filter.contains
    /\ \E p \in Pieces : /\ walk.seen[p].stat.err = ""
                         /\ walk.seen[p].stat.mTime = walk.createdBefore

\* a call with a nil filter returned
C23_NilFilterWitness ==
    /\ walk.phase = "returned"
    /\ walk.filter.nil

\* lambda * x + w and lambda * x, for the configuration's lambda and weight
Raised(x) == RAdd(RMul(cfg.AuditLambda, x), cfg.AuditWeight)

Decayed(x) == RMul(cfg.AuditLambda, x)

\* the normal pair / the unknown pair of the row is the pair p of the row the
\* call found, updated as a success, as a failure, or left alone
NormalPairIs(how) ==
    /\ Post.AuditReputationAlpha =
          CASE how = "success" -> Raised(LastNode.AuditReputationAlpha)
            [] how = "failure" -> Decayed(LastNode.AuditReputationAlpha)
            [] how = "same"    -> LastNode.AuditReputationAlpha
    /\ Post.AuditReputationBeta =
          CASE how = "success" -> Decayed(LastNode.AuditReputationBeta)
            [] how = "failure" -> Raised(LastNode.AuditReputationBeta)
            [] how = "same"    -> LastNode.AuditReputationBeta

UnknownPairIs(how) ==
    /\ Post.UnknownAuditReputationAlpha =
          CASE how = "success" -> Raised(LastNode.UnknownAuditReputationAlpha)
            [] how = "failure" -> Decayed(LastNode.UnknownAuditReputationAlpha)
            [] how = "same"    -> LastNode.UnknownAuditReputationAlpha
    /\ Post.UnknownAuditReputationBeta =
          CASE how = "success" -> Decayed(LastNode.UnknownAuditReputationBeta)
            [] how = "failure" -> Raised(LastNode.UnknownAuditReputationBeta)
            [] how = "same"    -> LastNode.UnknownAuditReputationBeta

\* C24: an Update that records its audit updates both belief pairs as a
\* success for Success, the normal pair as a failure and not the unknown pair
\* for Failure, the unknown pair as a failure and not the normal pair for
\* Unknown, and neither pair for Offline.
C24_OutcomeSelectsPairs ==
    Processed =>
        /\ last.outcome = "Success" => (NormalPairIs("success") /\ UnknownPairIs("success"))
        /\ last.outcome = "Failure" => (NormalPairIs("failure") /\ UnknownPairIs("same"))
        /\ last.outcome = "Unknown" => (NormalPairIs("same") /\ UnknownPairIs("failure"))
        /\ last.outcome = "Offline" => (NormalPairIs("same") /\ UnknownPairIs("same"))

\* an Unknown outcome on a node whose normal pair earlier audits had moved,
\* with lambda below 1
C24_Witness ==
    /\ Processed
    /\ last.outcome = "Unknown"
    /\ RLt(cfg.AuditLambda, <<1, 1>>)
    /\ LastNode.AuditReputationAlpha # <<1, 1>>
    /\ LastNode.AuditReputationBeta # <<1, 1>>
    /\ NormalPairIs("same")
    /\ Post.UnknownAuditReputationBeta # LastNode.UnknownAuditReputationBeta

\* C25: an Update that records its audit raises totalAuditCount by one,
\* whatever the outcome, and auditSuccessCount by one for Success and by
\* nothing otherwise; no call lowers either counter.
C25_CountersStep ==
    /\ Processed =>
          /\ Post.TotalAuditCount = LastNode.TotalAuditCount + 1
          /\ Post.AuditSuccessCount =
                LastNode.AuditSuccessCount + (IF last.outcome = "Success" THEN 1 ELSE 0)
    /\ (last.op # "none" /\ last.pre.present) =>
          /\ Post.TotalAuditCount >= last.pre.TotalAuditCount
          /\ Post.AuditSuccessCount >= last.pre.AuditSuccessCount

\* an Offline outcome after a Success: the total is raised, the success count
\* is not
C25_Witness ==
    /\ Processed
    /\ last.outcome = "Offline"
    /\ last.pre.AuditSuccessCount = 1
    /\ Post.AuditSuccessCount = 1
    /\ Post.TotalAuditCount = last.pre.TotalAuditCount + 1
    /\ Post.TotalAuditCount >= 2

\* C26: after an Update that records its audit contained is false; an Update
\* on a disqualified node leaves contained as it was.
C26_ContainmentCleared ==
    /\ Processed => ~Post.Contained
    /\ (last.op = "Update" /\ last.pre.Disqualified # Nil) => Post.Contained = last.pre.Contained

\* an Update on a contained node cleared contained
C26_Witness ==
    /\ Processed
    /\ last.pre.Contained
    /\ ~Post.Contained

\* an Update on a contained, disqualified node left it contained
C26_DisqualifiedWitness ==
    /\ last.op = "Update"
    /\ last.pre.Disqualified # Nil
    /\ last.pre.Contained
    /\ Post.Contained

\* C27: an Update that records its audit and leaves an audit reputation
\* alpha / (alpha + beta) at or below the disqualification threshold sets
\* disqualified to the observation time, whatever the outcome.
C27_AuditDisqualification ==
    (Processed /\ RLeq(AuditRep(Post), cfg.AuditDQ)) => Post.Disqualified = last.now

\* a failed audit left the audit reputation equal to the threshold and
\* disqualified the node
C27_Witness ==
    /\ Processed
    /\ last.outcome = "Failure"
    /\ AuditRep(Post) = cfg.AuditDQ
    /\ AuditRep(LastNode) # cfg.AuditDQ
    /\ Post.Disqualified = last.now

\* C28 as stated: after an Update that records its audit the row has
\* lastContactFailure equal to the observation time for Offline and
\* lastContactSuccess equal to it for every other outcome
C28_ContactTimestamps ==
    Processed =>
        /\ last.outcome = "Offline" => Post.LastContactFailure = last.now
        /\ last.outcome # "Offline" => Post.LastContactSuccess = last.now

\* no Update writes either contact timestamp of the row
C28_ContactTimestampsKept ==
    last.op = "Update" =>
        /\ Post.LastContactFailure = LastNode.LastContactFailure
        /\ Post.LastContactSuccess = LastNode.LastContactSuccess

\* the unknown-audit rules disqualified the node in the last Update
LastGraceDisqualified ==
    UnknownAuditUpdate(LastNode, Post.UnknownAuditReputationAlpha,
                       Post.UnknownAuditReputationBeta, last.outcome, cfg,
                       last.now, last.wall).disqualified

\* C29: with offline suspension disabled, an Update that records its audit
\* leaves offlineSuspended and underReview null, and disqualifies only through
\* the audit reputation or the unknown-audit grace period.
C29_OfflineSuspensionDisabled ==
    (Processed /\ ~cfg.AuditHistory.OfflineSuspensionEnabled) =>
        /\ Post.OfflineSuspended = Nil
        /\ Post.UnderReview = Nil
        /\ Post.Disqualified # Nil =>
              \/ AuditDisqualified(Post.AuditReputationAlpha, Post.AuditReputationBeta, cfg)
              \/ LastGraceDisqualified

\* with offline suspension disabled, an Offline audit of a node that was under
\* review and suspended, past the review period and with a full tracking
\* period and a score below the threshold, cleared both and did not
\* disqualify
C29_Witness ==
    /\ Processed
    /\ ~cfg.AuditHistory.OfflineSuspensionEnabled
    /\ cfg.AuditHistory.OfflineDQEnabled
    /\ last.outcome = "Offline"
    /\ last.pre.UnderReview # Nil
    /\ last.pre.OfflineSuspended # Nil
    /\ ReviewOver
    /\ LastScoreBelow
    /\ Post.UnderReview = Nil
    /\ Post.OfflineSuspended = Nil
    /\ Post.Disqualified = Nil

\* C30: with offline suspension enabled, an Update that records its audit on
\* a node that is not under review puts it under review exactly when the new
\* score is below the threshold and the tracking period is full, and then
\* sets underReview and offlineSuspended to the observation time.
C30_EntersReview ==
    (Processed /\ cfg.AuditHistory.OfflineSuspensionEnabled /\ LastNode.UnderReview = Nil) =>
        /\ Post.UnderReview # Nil <=> LastScoreBelow
        /\ LastScoreBelow => (Post.UnderReview = last.now /\ Post.OfflineSuspended = last.now)
        /\ ~LastAuditHistory.res.TrackingPeriodFull => Post.UnderReview = Nil

\* a node that was neither under review nor suspended enters review
C30_Witness ==
    /\ Processed
    /\ cfg.AuditHistory.OfflineSuspensionEnabled
    /\ LastNode.UnderReview = Nil
    /\ LastNode.OfflineSuspended = Nil
    /\ LastScoreBelow
    /\ Post.UnderReview = last.now
    /\ Post.OfflineSuspended = last.now
    /\ Post.Disqualified = Nil

\* a score below the threshold while the tracking period is not full: the
\* node does not enter review
C30_NotFullWitness ==
    /\ Processed
    /\ cfg.AuditHistory.OfflineSuspensionEnabled
    /\ RLt(LastAuditHistory.res.NewScore, cfg.AuditHistory.OfflineThreshold)
    /\ ~LastAuditHistory.res.TrackingPeriodFull
    /\ Post.UnderReview = Nil
    /\ Post.OfflineSuspended = Nil

\* the last call was an Update that recorded its audit with offline
\* suspension enabled
ProcessedEnabled == Processed /\ cfg.AuditHistory.OfflineSuspensionEnabled

\* C31: with offline suspension enabled, after an Update that records its
\* audit on a node that was under review, is still under review and is not
\* disqualified, offlineSuspended is set exactly when the node was penalized
\* in that update.
C31_SuspendedIffPenalized ==
    ( /\ ProcessedEnabled
      /\ LastNode.UnderReview # Nil
      /\ Post.UnderReview # Nil
      /\ Post.Disqualified = Nil )
        => (Post.OfflineSuspended # Nil <=> LastScoreBelow)

\* the score of a suspended node under review has recovered before the review
\* is over: the suspension is lifted and the review goes on
C31_Witness ==
    /\ ProcessedEnabled
    /\ LastNode.UnderReview # Nil
    /\ LastNode.OfflineSuspended # Nil
    /\ ~LastScoreBelow
    /\ ~ReviewOver
    /\ Post.UnderReview = LastNode.UnderReview
    /\ Post.OfflineSuspended = Nil
    /\ Post.Disqualified = Nil

\* C32: with offline suspension enabled, an Update that records its audit
\* clears underReview exactly when the node was under review, the observation
\* time is after underReview + grace period + tracking period and the node is
\* not penalized; it then clears offlineSuspended too, and until that time
\* underReview keeps its value.
C32_ReviewCleared ==
    ProcessedEnabled =>
        /\ (LastNode.UnderReview # Nil /\ Post.UnderReview = Nil)
              <=> (ReviewOver /\ ~LastScoreBelow)
        /\ (ReviewOver /\ ~LastScoreBelow) => Post.OfflineSuspended = Nil
        /\ (LastNode.UnderReview # Nil /\ ~ReviewOver) => Post.UnderReview = LastNode.UnderReview

\* the review of a node whose score had recovered ended
C32_Witness ==
    /\ ProcessedEnabled
    /\ LastNode.UnderReview # Nil
    /\ ReviewOver
    /\ ~LastScoreBelow
    /\ Post.UnderReview = Nil
    /\ Post.OfflineSuspended = Nil
    /\ Post.Disqualified = Nil

\* the last Update disqualified the node, and neither the audit reputation
\* nor the unknown-audit grace period accounts for it
OfflineDisqualification ==
    /\ Processed
    /\ Post.Disqualified # Nil
    /\ ~RLeq(AuditRep(Post), cfg.AuditDQ)
    /\ ~LastGraceDisqualified

\* C33: a node is disqualified for being offline only by an Update that found
\* it under review, at an observation time after underReview + grace period +
\* tracking period, with OfflineDQEnabled; never by the Update that puts it
\* under review.
C33_NoEarlyOfflineDisqualification ==
    OfflineDisqualification =>
        /\ Post.Disqualified = last.now
        /\ LastNode.UnderReview # Nil
        /\ last.now > LastNode.UnderReview + cfg.AuditHistory.GracePeriod
                                           + cfg.AuditHistory.TrackingPeriod
        /\ cfg.AuditHistory.OfflineDQEnabled
        /\ cfg.AuditHistory.OfflineSuspensionEnabled

\* an offline disqualification at the first observation time after the end of
\* the review
C33_Witness ==
    /\ OfflineDisqualification
    /\ last.now = LastNode.UnderReview + cfg.AuditHistory.GracePeriod
                                       + cfg.AuditHistory.TrackingPeriod + 1
    /\ Post.Disqualified = last.now

\* (numberOfWindows - 1) >= floor(trackingPeriod / windowSize), for the windows
\* the node of the last call has now
WindowsFillTrackingPeriod ==
    Len(WindowsOf(last.node)) - 1
        >= cfg.AuditHistory.TrackingPeriod \div cfg.AuditHistory.WindowSize

C34_TrackingPeriodFullOfRow ==
    ObservationRecorded =>
        /\ last.preHistory.present =>
              (LastAuditHistory.res.TrackingPeriodFull <=> WindowsFillTrackingPeriod)
        /\ ~last.preHistory.present =>
              /\ ~LastAuditHistory.res.TrackingPeriodFull
              /\ LastAuditHistory.res.NewScore = <<1, 1>>

\* an observation that opened the window that fills a tracking period of two
\* windows
C34_Witness ==
    /\ ObservationRecorded
    /\ last.preHistory.present
    /\ cfg.AuditHistory.TrackingPeriod \div cfg.AuditHistory.WindowSize = 2
    /\ Len(last.preHistory.History.Windows) = 2
    /\ Len(WindowsOf(last.node)) = 3
    /\ LastAuditHistory.res.TrackingPeriodFull

\* C35: after every Update that records its audit on a node that was not
\* disqualified, the OnlineScore of the reputations row equals the Score of the
\* node's audit_histories row.
C35_OnlineScoreIsHistoryScore ==
    Processed =>
        /\ PostHistory.present
        /\ Post.OnlineScore = PostHistory.History.Score

\* an Update that opened a new window and changed the score to one below 1
C35_Witness ==
    /\ Processed
    /\ last.preHistory.present
    /\ PostHistory.History.Score # last.preHistory.History.Score
    /\ RLt(PostHistory.History.Score, <<1, 1>>)
    /\ Post.OnlineScore = PostHistory.History.Score

\* C36: after every Update that records its audit and leaves the node not
\* disqualified, UnknownAuditSuspended is non-null iff the unknown-audit
\* reputation written by the Update is at or below AuditDQ, whatever the
\* outcome and whether or not the node was suspended before.
C36_SuspendedIffUnknownRepLow ==
    (Processed /\ Post.Disqualified = Nil) =>
        (Post.UnknownAuditSuspended # Nil <=> UnknownRepAtMostDQ(Post))

\* an Update without a successful audit lifted a suspension that the node's
\* unknown-audit reputation did not call for
C36_Witness ==
    /\ Processed
    /\ last.outcome # "Success"
    /\ LastNode.UnknownAuditSuspended # Nil
    /\ ~UnknownRepAtMostDQ(Post)
    /\ Post.UnknownAuditSuspended = Nil
    /\ Post.Disqualified = Nil

\* disqualification case a: the audit reputation written is at or below AuditDQ
DisqualifiedByAuditRep == RLeq(AuditRep(Post), cfg.AuditDQ)

\* disqualification case b: the unknown-audit reputation written is at or below
\* AuditDQ, the outcome is not Success, the node was suspended before the call,
\* SuspensionDQEnabled, and the clock is more than SuspensionGracePeriod past
\* the suspension
DisqualifiedByGracePeriod ==
    /\ UnknownRepAtMostDQ(Post)
    /\ last.outcome # "Success"
    /\ LastNode.UnknownAuditSuspended # Nil
    /\ cfg.SuspensionDQEnabled
    /\ last.wall - LastNode.UnknownAuditSuspended > cfg.SuspensionGracePeriod

\* offline disqualification: offline suspension enabled, the node under review
\* before the call, the review over, the score below the threshold with a full
\* tracking period, and OfflineDQEnabled
DisqualifiedOffline ==
    /\ cfg.AuditHistory.OfflineSuspensionEnabled
    /\ LastNode.UnderReview # Nil
    /\ ReviewOver
    /\ LastScoreBelow
    /\ cfg.AuditHistory.OfflineDQEnabled

\* C37: an Update that records its audit sets Disqualified iff case a, case b
\* or the offline disqualification applies; there is no other path, and a node
\* whose unknown-audit reputation is above AuditDQ is not disqualified by the
\* grace period.
C37_DisqualifiedIffCase ==
    Processed =>
        /\ Post.Disqualified # Nil <=>
              (DisqualifiedByAuditRep \/ DisqualifiedByGracePeriod \/ DisqualifiedOffline)
        /\ Post.Disqualified # Nil => Post.Disqualified = last.now

\* a disqualification by the grace period alone
C37_Witness ==
    /\ Processed
    /\ Post.Disqualified = last.now
    /\ ~DisqualifiedByAuditRep
    /\ DisqualifiedByGracePeriod
    /\ ~DisqualifiedOffline

\* a disqualification by the offline rules alone
C37_WitnessOffline ==
    /\ Processed
    /\ Post.Disqualified = last.now
    /\ ~DisqualifiedByAuditRep
    /\ ~DisqualifiedByGracePeriod
    /\ DisqualifiedOffline

\* a suspended node past the grace period, with an outcome other than Success
\* and an unknown-audit reputation above AuditDQ, is not disqualified
C37_WitnessAbove ==
    /\ Processed
    /\ last.outcome # "Success"
    /\ LastNode.UnknownAuditSuspended # Nil
    /\ cfg.SuspensionDQEnabled
    /\ last.wall - LastNode.UnknownAuditSuspended > cfg.SuspensionGracePeriod
    /\ ~UnknownRepAtMostDQ(Post)
    /\ Post.Disqualified = Nil

\* C38: in the states reached by Updates alone, a row with OfflineSuspended
\* set has UnderReview set; and an Update under a configuration with offline
\* suspension disabled leaves both null.
C38_SuspendedImpliesUnderReview ==
    /\ \A n \in Nodes :
          reputations[n].OfflineSuspended # Nil => reputations[n].UnderReview # Nil
    /\ (Processed /\ ~cfg.AuditHistory.OfflineSuspensionEnabled) =>
          /\ Post.OfflineSuspended = Nil
          /\ Post.UnderReview = Nil

\* an Update suspended again a node under review whose suspension had been
\* lifted
C38_Witness ==
    /\ ProcessedEnabled
    /\ LastNode.UnderReview # Nil
    /\ LastNode.OfflineSuspended = Nil
    /\ Post.OfflineSuspended = last.now
    /\ Post.UnderReview = LastNode.UnderReview
    /\ Post.UnderReview < last.now

\* C39: an Update that records its audit never replaces a non-null
\* UnknownAuditSuspended or a non-null UnderReview by a different non-null
\* time.
C39_ClocksNotRestarted ==
    Processed =>
        /\ (LastNode.UnknownAuditSuspended # Nil /\ Post.UnknownAuditSuspended # Nil)
              => Post.UnknownAuditSuspended = LastNode.UnknownAuditSuspended
        /\ (LastNode.UnderReview # Nil /\ Post.UnderReview # Nil)
              => Post.UnderReview = LastNode.UnderReview

\* an unknown audit on a node suspended earlier kept the time of the suspension
C39_Witness ==
    /\ Processed
    /\ last.outcome = "Unknown"
    /\ LastNode.UnknownAuditSuspended # Nil
    /\ LastNode.UnknownAuditSuspended < last.now
    /\ UnknownRepAtMostDQ(Post)
    /\ Post.UnknownAuditSuspended = LastNode.UnknownAuditSuspended
    /\ Post.Disqualified = Nil

\* an offline audit on a node penalized and under review since earlier kept the
\* time of the review
C39_WitnessReview ==
    /\ ProcessedEnabled
    /\ LastScoreBelow
    /\ LastNode.UnderReview # Nil
    /\ LastNode.UnderReview < last.now
    /\ Post.UnderReview = LastNode.UnderReview

\* C40: in every audit_histories row every window has TotalCount >= 1 and
\* 0 <= OnlineCount <= TotalCount, so no window ratio divides by zero, and the
\* Score of the history is a number between 0 and 1.
C40_CountsAndScoreInRange ==
    \A n \in Nodes :
        audit_histories[n].present =>
            /\ \A i \in 1..Len(WindowsOf(n)) :
                  /\ WindowsOf(n)[i].TotalCount >= 1
                  /\ WindowsOf(n)[i].OnlineCount >= 0
                  /\ WindowsOf(n)[i].OnlineCount <= WindowsOf(n)[i].TotalCount
            /\ audit_histories[n].History.Score[2] > 0
            /\ RLeq(<<0, 1>>, audit_histories[n].History.Score)
            /\ RLeq(audit_histories[n].History.Score, <<1, 1>>)

\* a history with a window of offline audits only, a window of online audits
\* only and a score strictly between 0 and 1
C40_Witness ==
    /\ ObservationRecorded
    /\ \E i \in 1..Len(WindowsOf(last.node)) : WindowsOf(last.node)[i].OnlineCount = 0
    /\ \E i \in 1..Len(WindowsOf(last.node)) :
          WindowsOf(last.node)[i].OnlineCount = WindowsOf(last.node)[i].TotalCount
    /\ RLt(<<0, 1>>, PostHistory.History.Score)
    /\ RLt(PostHistory.History.Score, <<1, 1>>)

=============================================================================
